---------------------------- MODULE Spec2Model ----------------------------
(***************************************************************************)
(* A model of the reactive core of ultra-light-js (src/src/ultra-light.ts): *)
(* ultraState (ReactiveCell), UltraContext (ScopedContext), ultraEffect,    *)
(* UltraComponent's cleanup aggregation, UltraActivity, matchRoute,        *)
(* UltraRouter, UltraLink and ultraCompState (CompositeStore).              *)
(*                                                                         *)
(* JavaScript is single threaded: every public call (set, subscribe, own,   *)
(* a navigation ...) runs to completion, callbacks included, before any     *)
(* other task starts.  Each such call is one action.  Work the code defers  *)
(* with `await` is a continuation in the microtask queue, run by its own    *)
(* action before the next task.                                            *)
(***************************************************************************)
EXTENDS Integers, Sequences, FiniteSets, TLC

VARIABLES
    cells,           \* ultraState instances: cell id -> [value, subscribers]
    frozen,          \* object references Object.freeze has been applied to
    written,         \* object references a property of which user code has changed
    handles,         \* unsubscribe closures user code holds, as [cell, fn, spent]
    cellLast,        \* what the last ultraState call did (observed by its caller)
    owner,           \* UltraContext: `owner`
    assigned,        \* UltraContext: `assigned`
    ctxValue,        \* UltraContext: `value`
    ctxSubscribers,  \* UltraContext: `subscribers` (a Set, in insertion order)
    ctxHandles,      \* closures returned by UltraContext.subscribe: [fn, noop]
    parent,          \* the DOM containment tree: node -> parent node or NoNode
    ctxLast,         \* what the last UltraContext call did
    routes,          \* UltraRouter: the route table it was constructed with
    pathname,        \* window.location.pathname
    listening,       \* the router's popstate handler is registered on window
    currentCleanup,  \* UltraRouter: `currentCleanup` (an instance id, or NoInst)
    content,         \* the node inside the router container (instance id or NoInst)
    insts,           \* every node a factory or user code built: instance id -> record
    effects,         \* ultraEffect closures: instance id -> [mainCleanup, ...]
    microtasks,      \* the microtask queue: continuations of awaits
    frames,          \* requestAnimationFrame callbacks waiting for the next paint
    navs,            \* navigations (or trees built by user code) so far
    routerLast,      \* the events of the last task, in order
    matchLast        \* what the last call of matchRoute returned

cellVars == <<cells, frozen, written, handles, cellLast>>
ctxVars == <<owner, assigned, ctxValue, ctxSubscribers, ctxHandles, parent, ctxLast>>
routerVars == <<routes, pathname, listening, currentCleanup, content, insts, effects,
                microtasks, frames, navs, routerLast, matchLast>>
vars == <<cells, frozen, written, handles, cellLast,
          owner, assigned, ctxValue, ctxSubscribers, ctxHandles, parent, ctxLast,
          routes, pathname, listening, currentCleanup, content, insts, effects,
          microtasks, frames, navs, routerLast, matchLast>>

(***************************************************************************)
(* JavaScript values.  A value is a record of one shape: its type tag, and  *)
(* the number, the string or the object reference it is.                   *)
(***************************************************************************)
Num(n) == [t |-> "number", n |-> n, s |-> "", ref |-> 0]
NaN == [t |-> "number", n |-> 0, s |-> "NaN", ref |-> 0]
Str(s) == [t |-> "string", n |-> 0, s |-> s, ref |-> 0]
Null == [t |-> "null", n |-> 0, s |-> "", ref |-> 0]
Obj(r) == [t |-> "object", n |-> 0, s |-> "", ref |-> r]

\* The language's primitive values are all but the objects; null is one.
\* Objects are known by their reference: Obj(1) and Obj(2) stand for an
\* object and a copy {...o} of it, Obj(3) for an object of other content.
IsPrimitive(v) == v.t # "object"

\* JavaScript's typeof: null is reported as 'object'.
TypeOf(v) == IF v.t = "null" THEN "object" ELSE v.t

\* JavaScript's ===: NaN differs from itself, objects compare by reference.
StrictEq(a, b) == IF a = NaN \/ b = NaN THEN FALSE ELSE a = b

NoNode == "none"
NoInst == 0

\* A subscriber callback: a user function (kind "user"), or a closure a
\* build of instance `inst` created.
Callback(kind, inst, idx) == [kind |-> kind, inst |-> inst, idx |-> idx]
UserFn(i) == Callback("user", NoInst, i)

Range(s) == {s[i] : i \in 1..Len(s)}
IndexOf(seq, x) == CHOOSE i \in 1..Len(seq) : seq[i] = x
RECURSIVE Without(_, _)
Without(s, x) ==
    IF s = <<>> THEN <<>>
    ELSE IF Head(s) = x THEN Without(Tail(s), x)
    ELSE <<Head(s)>> \o Without(Tail(s), x)

\* Set.prototype.add / delete on a Set kept as its insertion-ordered sequence.
SetAdd(s, x) == IF x \in Range(s) THEN s ELSE Append(s, x)
SetDelete(s, x) == Without(s, x)

\* F applied to the value of x, with x evaluated once.
Then(x, F(_)) == CHOOSE r \in {F(v) : v \in {x}} : TRUE

\* A location path is the sequence of its parts between slashes; "/" has two
\* empty parts.
Lit(name) == [colon |-> FALSE, name |-> name]
Param(name) == [colon |-> TRUE, name |-> name]
EmptyPart == Lit("")
RootPath == <<EmptyPart, EmptyPart>>

\* { matched: false, params: {} }
NoMatch == [matched |-> FALSE, isWildcard |-> FALSE, params |-> <<>>]

(***************************************************************************)
(* ultraState                                                              *)
(***************************************************************************)
CellIds == {"s1", "s2"}

\* The user functions of the cell model; f2 throws whenever it is called.
UserFns == {UserFn(1), UserFn(2)}
Throws(fn) == fn = UserFn(2)

\* User functions that use the cell they are subscribed to: f3 calls the
\* closure subscribe(f1) returned, f5 calls subscribe(f4), f6 calls
\* setValue(1); f4 is one more function that returns.
PassFns == {UserFn(1), UserFn(3), UserFn(4), UserFn(5)}
NestFns == {UserFn(1), UserFn(6)}
Acts(fn) ==
    IF fn = UserFn(2) THEN "throw"
    ELSE IF fn = UserFn(3) THEN "unsubscribe"
    ELSE IF fn = UserFn(5) THEN "subscribe"
    ELSE IF fn = UserFn(6) THEN "set"
    ELSE "return"

CellValues == {Num(0), Num(1), NaN, Null, Obj(1), Obj(2), Obj(3)}

\* The values of the own enumerable keys of an object: object 1 holds a
\* number, null and object 4, which holds object 5; object 2 (a spread copy
\* of 1) holds object 4 too; the other objects hold no object.
ValuesOf(ref) ==
    IF ref = 1 THEN {Num(0), Null, Obj(4)}
    ELSE IF ref = 2 THEN {Num(1), Null, Obj(4)}
    ELSE IF ref = 4 THEN {Obj(5)}
    ELSE {Num(0)}

\* deepFreeze(obj): the references frozen afterwards, fz being those frozen
\* before. Object.keys(obj).forEach(key => deepFreeze(obj[key])), then
\* Object.freeze(obj).
RECURSIVE deepFreezeAll(_, _)
deepFreezeShallow(obj, fz) ==
    IF TypeOf(obj) # "object" \/ obj = Null THEN fz ELSE fz \cup {obj.ref}
deepFreeze(obj, fz) ==
    IF TypeOf(obj) # "object" \/ obj = Null THEN fz
    ELSE deepFreezeAll(ValuesOf(obj.ref), fz) \cup {obj.ref}
deepFreezeAll(values, fz) ==
    IF values = {} THEN fz
    ELSE LET v == CHOOSE x \in values : TRUE
         IN  deepFreezeAll(values \ {v}, deepFreeze(v, fz))

\* The objects an expression that starts with get() can reach.
RECURSIVE reach(_)
reach(v) ==
    IF TypeOf(v) # "object" \/ v = Null THEN {}
    ELSE {v.ref} \cup UNION {reach(x) : x \in ValuesOf(v.ref)}

\* let value = (typeof initialValue === 'object' && initialValue !== null) ? deepFreeze(...) : ...
ultraState(initialValue) == [value |-> initialValue, subscribers |-> <<>>]

\* if (typeof value !== 'object' && value === newValue) return;
setValueReturnsNoTypeof(value, newValue) == StrictEq(value, newValue)
setValueReturns(value, newValue) ==
    TypeOf(value) # "object" /\ StrictEq(value, newValue)

\* subscribers.forEach(fn => { try { fn(value) } catch { console.error } })
\* with subscribers that leave the Set alone: the calls made, in order.
forEachUncaught(subscribers, value) ==
    [i \in 1..(IF \E j \in 1..Len(subscribers) : Throws(subscribers[j])
               THEN CHOOSE j \in 1..Len(subscribers) :
                        /\ Throws(subscribers[j])
                        /\ \A k \in 1..(j - 1) : ~Throws(subscribers[k])
               ELSE Len(subscribers)) |-> [fn |-> subscribers[i], arg |-> value]]
forEach(subscribers, value) ==
    [i \in 1..Len(subscribers) |-> [fn |-> subscribers[i], arg |-> value]]

\* Set.prototype.forEach walks the entries of the Set in insertion order as
\* they are when it comes to them: an entry deleted before its turn is not
\* visited, an entry added during the walk is. The Set is kept, while a
\* setValue is running, as its entries with the deleted ones marked.
entriesOf(subscribers) ==
    [i \in 1..Len(subscribers) |-> [fn |-> subscribers[i], live |-> TRUE]]
liveDelete(entries, fn) ==
    [i \in 1..Len(entries) |->
        IF entries[i].fn = fn THEN [entries[i] EXCEPT !.live = FALSE] ELSE entries[i]]
liveAdd(entries, fn) ==
    IF \E i \in 1..Len(entries) : entries[i].fn = fn /\ entries[i].live THEN entries
    ELSE Append(entries, [fn |-> fn, live |-> TRUE])
RECURSIVE liveFns(_)
liveFns(entries) ==
    IF entries = <<>> THEN <<>>
    ELSE IF Head(entries).live THEN <<Head(entries).fn>> \o liveFns(Tail(entries))
    ELSE liveFns(Tail(entries))

\* The closure state of a cell while setValue runs: value, the entries of
\* subscribers, and the calls made so far with the argument each one got.
\* newValue is the parameter of the setValue that is running innermost.
RECURSIVE setValueIn(_, _)

\* fn(value): the call is made with the variable value as it is now, and fn
\* does what it does.
callSubscriberNewValue(p, fn) ==
    Then([p EXCEPT !.calls = Append(@, [fn |-> fn, arg |-> p.newValue])], LAMBDA q :
        IF Acts(fn) = "unsubscribe" THEN [q EXCEPT !.entries = liveDelete(@, UserFn(1))]
        ELSE IF Acts(fn) = "subscribe" THEN [q EXCEPT !.entries = liveAdd(@, UserFn(4))]
        ELSE IF Acts(fn) = "set" THEN setValueIn(q, Num(1))
        ELSE q)
callSubscriber(p, fn) ==
    Then([p EXCEPT !.calls = Append(@, [fn |-> fn, arg |-> p.value])], LAMBDA q :
        IF Acts(fn) = "unsubscribe" THEN [q EXCEPT !.entries = liveDelete(@, UserFn(1))]
        ELSE IF Acts(fn) = "subscribe" THEN [q EXCEPT !.entries = liveAdd(@, UserFn(4))]
        ELSE IF Acts(fn) = "set" THEN setValueIn(q, Num(1))
        ELSE q)

RECURSIVE forEachLive(_, _)
forEachLive(p, i) ==
    IF i > Len(p.entries) THEN p
    ELSE IF ~p.entries[i].live THEN forEachLive(p, i + 1)
    ELSE Then(callSubscriber(p, p.entries[i].fn), LAMBDA q : forEachLive(q, i + 1))

\* setValue(newValue) while the closure state is p: the early return, or the
\* assignment and a walk of its own over the Set; then the caller goes on.
setValueIn(p, newValue) ==
    IF setValueReturns(p.value, newValue) THEN p
    ELSE Then(forEachLive([p EXCEPT !.value = newValue, !.newValue = newValue], 1),
              LAMBDA q : [q EXCEPT !.newValue = p.newValue])

\* setValue: the cell afterwards and the subscriber calls made, in order.
setValue(cell, newValue) ==
    IF setValueReturns(cell.value, newValue)
    THEN [cell |-> cell, calls |-> <<>>, returned |-> TRUE]
    ELSE Then(setValueIn([value |-> cell.value, newValue |-> newValue,
                          entries |-> entriesOf(cell.subscribers),
                          calls |-> <<>>], newValue), LAMBDA p :
            [cell |-> [value |-> p.value, subscribers |-> liveFns(p.entries)],
             calls |-> p.calls,
             returned |-> FALSE])

subscribe(cell, fn) == [cell EXCEPT !.subscribers = SetAdd(@, fn)]
unsubscribe(cell, fn) == [cell EXCEPT !.subscribers = SetDelete(@, fn)]

\* What a caller of the last ultraState call could observe: the value before
\* it, the subscriber calls it made, the errors it logged, whether it threw.
NoCall == [op |-> "none", cell |-> "s1", arg |-> Null, fn |-> UserFn(0),
           before |-> Null, calls |-> <<>>, errors |-> 0, threw |-> FALSE,
           spent |-> FALSE, key |-> "", result |-> Null]

\* What a caller of the last UltraContext call could observe.
NoCtxCall == [op |-> "none", candidate |-> NoNode, arg |-> Null, fn |-> UserFn(0),
              result |-> Null, calls |-> <<>>, noop |-> FALSE, threw |-> FALSE]

\* Two cells holding 0 that nobody has subscribed to.
IdleCells == [c \in CellIds |-> ultraState(Num(0))]

\* The DOM the program starts with: child inside container, outsider detached.
Document ==
    [n \in {"container", "child", "outsider"} |->
        IF n = "child" THEN "container" ELSE NoNode]

\* ultraState(v) has returned for cell s1; no context is in use and no
\* router has been constructed.
CellInit ==
    /\ \E v \in {Num(0), Null, Obj(1)} :
           /\ cells = [IdleCells EXCEPT !["s1"] = ultraState(v)]
           /\ frozen = deepFreeze(v, {})
    /\ written = {}
    /\ handles = {}
    /\ cellLast = NoCall
    /\ owner = NoNode
    /\ assigned = FALSE
    /\ ctxValue = Str("light")
    /\ ctxSubscribers = <<>>
    /\ ctxHandles = {}
    /\ parent = Document
    /\ ctxLast = NoCtxCall
    /\ routes = <<>>
    /\ pathname = RootPath
    /\ listening = FALSE
    /\ currentCleanup = NoInst
    /\ content = NoInst
    /\ insts = <<>>
    /\ effects = <<>>
    /\ microtasks = <<>>
    /\ frames = <<>>
    /\ navs = 0
    /\ routerLast = <<>>
    /\ matchLast = NoMatch

\* The closures subscribe has returned that user code holds: for each
\* function the latest one not yet called, and one that has been called.
Handle(c, fn, spent) == [cell |-> c, fn |-> fn, spent |-> spent]
called(hs, h) ==
    IF h \in hs THEN (hs \ {h}) \cup {Handle(h.cell, h.fn, TRUE)} ELSE hs

\* setValue(newValue), called by user code. A subscriber that calls the
\* closure kept for f1 leaves it called.
SetValue(c, newValue) ==
    LET r == setValue(cells[c], newValue) IN
    /\ cells' = [cells EXCEPT ![c] = r.cell]
    /\ frozen' = IF r.returned THEN frozen ELSE deepFreeze(newValue, frozen)
    /\ cellLast' = [NoCall EXCEPT !.op = "set", !.cell = c, !.arg = newValue,
                       !.before = cells[c].value, !.calls = r.calls,
                       !.errors = Cardinality({i \in 1..Len(r.calls) : Throws(r.calls[i].fn)})]
    /\ handles' = IF \E i \in 1..Len(r.calls) : Acts(r.calls[i].fn) = "unsubscribe"
                   THEN called(handles, Handle(c, UserFn(1), FALSE))
                   ELSE handles
    /\ UNCHANGED <<written, ctxVars, routerVars>>

\* subscribe(fn), called by user code; the closure returned is kept.
Subscribe(c, fn) ==
    /\ cells' = [cells EXCEPT ![c] = subscribe(@, fn)]
    /\ handles' = handles \cup {Handle(c, fn, FALSE)}
    /\ cellLast' = [NoCall EXCEPT !.op = "subscribe", !.cell = c, !.fn = fn]
    /\ UNCHANGED <<frozen, written, ctxVars, routerVars>>

\* A closure returned by subscribe is called: () => subscribers.delete(fn)
Unsubscribe(h) ==
    /\ cells' = [cells EXCEPT ![h.cell] = unsubscribe(@, h.fn)]
    /\ handles' = called(handles, h)
    /\ cellLast' = [NoCall EXCEPT !.op = "unsubscribe", !.cell = h.cell, !.fn = h.fn,
                       !.spent = h.spent]
    /\ UNCHANGED <<frozen, written, ctxVars, routerVars>>

\* get().a = 1, get().a.b = 1, ...: strict-mode code assigns to a property
\* of an object reached from getValue(); the assignment throws a TypeError
\* when the object is frozen and changes the object otherwise.
Assign(c, ref) ==
    /\ ref \in reach(cells[c].value)
    /\ written' = IF ref \in frozen THEN written ELSE written \cup {ref}
    /\ cellLast' = [NoCall EXCEPT !.op = "assign", !.cell = c, !.arg = Obj(ref),
                       !.before = cells[c].value, !.threw = ref \in frozen]
    /\ UNCHANGED <<cells, frozen, handles, ctxVars, routerVars>>

\* User code working on the cell s1.
ObjRefs == 1..5
CellNext ==
    \/ \E v \in CellValues : SetValue("s1", v)
    \/ \E fn \in UserFns : Subscribe("s1", fn)
    \/ \E h \in handles : Unsubscribe(h)
    \/ \E ref \in ObjRefs : Assign("s1", ref)

\* User code working on the cell s1 with subscribers that use the cell.
PassValues == {Num(0), Num(1), Obj(1)}
PassNext ==
    \/ \E v \in PassValues : SetValue("s1", v)
    \/ \E fn \in PassFns : Subscribe("s1", fn)
    \/ \E h \in handles : Unsubscribe(h)

\* User code working on the cell s1 with a subscriber that sets the cell.
NestNext ==
    \/ \E v \in PassValues : SetValue("s1", v)
    \/ \E fn \in NestFns : Subscribe("s1", fn)
    \/ \E h \in handles : Unsubscribe(h)

(***************************************************************************)
(* The DOM containment tree                                                *)
(***************************************************************************)
Nodes == {"container", "child", "outsider"}
Candidates == Nodes \cup {NoNode}

\* Node.prototype.contains(other): other is the node itself or a descendant
\* of it; found by walking up from other.
RECURSIVE contains(_, _, _)
contains(par, node, other) ==
    IF other = NoNode THEN FALSE
    ELSE IF other = node THEN TRUE
    ELSE contains(par, node, par[other])

(***************************************************************************)
(* UltraContext                                                            *)
(***************************************************************************)
CtxValues == {Str("light"), Str("undefined"), Obj(1)}

\* function canReach(candidate?)
canReachInitialTree(own, par, candidate) ==
    IF own = NoNode THEN TRUE
    ELSE IF candidate = NoNode THEN FALSE
    ELSE IF ~contains(Document, own, candidate) THEN FALSE
    ELSE TRUE
canReachNoCandidateCheck(own, par, candidate) ==
    IF own = NoNode THEN TRUE ELSE contains(par, own, candidate) \/ candidate = NoNode
canReach(own, par, candidate) ==
    IF own = NoNode THEN TRUE
    ELSE IF candidate = NoNode THEN FALSE
    ELSE IF ~contains(par, own, candidate) THEN FALSE
    ELSE TRUE

\* function getValue(candidate?): "undefined" as T when unreachable
Sentinel == Str("undefined")
getValue(own, par, value, candidate) ==
    IF ~canReach(own, par, candidate) THEN Sentinel ELSE value

\* function setValue(newValue, candidate?): the value afterwards and the calls made.
ctxSetValueUnownedOnly(own, par, value, subscribers, newValue, candidate) ==
    IF ~canReach(own, par, candidate) THEN [value |-> value, calls |-> <<>>]
    ELSE IF TypeOf(value) # "object" /\ StrictEq(value, newValue)
    THEN [value |-> value, calls |-> <<>>]
    ELSE [value |-> newValue,
          calls |-> IF own = NoNode THEN forEach(subscribers, newValue) ELSE <<>>]
ctxSetValueUngated(own, par, value, subscribers, newValue, candidate) ==
    IF TypeOf(value) # "object" /\ StrictEq(value, newValue)
    THEN [value |-> value, calls |-> <<>>]
    ELSE [value |-> newValue, calls |-> forEach(subscribers, newValue)]
ctxSetValue(own, par, value, subscribers, newValue, candidate) ==
    IF ~canReach(own, par, candidate) THEN [value |-> value, calls |-> <<>>]
    ELSE IF TypeOf(value) # "object" /\ StrictEq(value, newValue)
    THEN [value |-> value, calls |-> <<>>]
    ELSE [value |-> newValue, calls |-> forEach(subscribers, newValue)]

\* The closures subscribe returns: () => {} captures nothing, and
\* () => subscribers.delete(fn) captures fn.
NoopHandle == [fn |-> UserFn(0), noop |-> TRUE]
DeleteHandle(fn) == [fn |-> fn, noop |-> FALSE]

\* function subscribe(fn, candidate?): the subscriber set afterwards and the
\* closure returned.
ctxSubscribeUngated(own, par, subscribers, fn, candidate) ==
    [subscribers |-> SetAdd(subscribers, fn), handle |-> DeleteHandle(fn)]
ctxSubscribe(own, par, subscribers, fn, candidate) ==
    IF ~canReach(own, par, candidate)
    THEN [subscribers |-> subscribers, handle |-> NoopHandle]
    ELSE [subscribers |-> SetAdd(subscribers, fn), handle |-> DeleteHandle(fn)]

\* function own(newOwner): throws when assigned, else sets owner and assigned.
ownReassigns(isAssigned, own, newOwner) ==
    [owner |-> newOwner, assigned |-> TRUE, threw |-> FALSE]
ownResult(isAssigned, own, newOwner) ==
    IF isAssigned THEN [owner |-> own, assigned |-> isAssigned, threw |-> TRUE]
    ELSE [owner |-> newOwner, assigned |-> TRUE, threw |-> FALSE]


\* UltraContext("light") has returned; the cells are idle and no router has
\* been constructed.
CtxInit ==
    /\ owner = NoNode
    /\ assigned = FALSE
    /\ ctxValue = Str("light")
    /\ ctxSubscribers = <<>>
    /\ ctxHandles = {}
    /\ parent = Document
    /\ ctxLast = NoCtxCall
    /\ cells = IdleCells
    /\ frozen = {}
    /\ written = {}
    /\ handles = {}
    /\ cellLast = NoCall
    /\ routes = <<>>
    /\ pathname = RootPath
    /\ listening = FALSE
    /\ currentCleanup = NoInst
    /\ content = NoInst
    /\ insts = <<>>
    /\ effects = <<>>
    /\ microtasks = <<>>
    /\ frames = <<>>
    /\ navs = 0
    /\ routerLast = <<>>
    /\ matchLast = NoMatch

CtxGet(candidate) ==
    /\ ctxLast' = [NoCtxCall EXCEPT !.op = "get", !.candidate = candidate,
                      !.result = getValue(owner, parent, ctxValue, candidate)]
    /\ UNCHANGED <<owner, assigned, ctxValue, ctxSubscribers, ctxHandles, parent>>
    /\ UNCHANGED <<cellVars, routerVars>>

CtxSet(newValue, candidate) ==
    LET r == ctxSetValue(owner, parent, ctxValue, ctxSubscribers, newValue, candidate) IN
    /\ ctxValue' = r.value
    /\ ctxLast' = [NoCtxCall EXCEPT !.op = "set", !.candidate = candidate,
                      !.arg = newValue, !.calls = r.calls]
    /\ UNCHANGED <<owner, assigned, ctxSubscribers, ctxHandles, parent>>
    /\ UNCHANGED <<cellVars, routerVars>>

CtxSubscribe(fn, candidate) ==
    LET r == ctxSubscribe(owner, parent, ctxSubscribers, fn, candidate) IN
    /\ ctxSubscribers' = r.subscribers
    /\ ctxHandles' = ctxHandles \cup {r.handle}
    /\ ctxLast' = [NoCtxCall EXCEPT !.op = "subscribe", !.candidate = candidate,
                      !.fn = fn, !.noop = r.handle.noop]
    /\ UNCHANGED <<owner, assigned, ctxValue, parent>>
    /\ UNCHANGED <<cellVars, routerVars>>

\* A closure returned by subscribe is called: () => {} or () => subscribers.delete(fn)
CtxUnsubscribe(h) ==
    /\ ctxSubscribers' = IF h.noop THEN ctxSubscribers ELSE SetDelete(ctxSubscribers, h.fn)
    /\ ctxLast' = [NoCtxCall EXCEPT !.op = "unsubscribe", !.fn = h.fn, !.noop = h.noop]
    /\ UNCHANGED <<owner, assigned, ctxValue, ctxHandles, parent>>
    /\ UNCHANGED <<cellVars, routerVars>>

Own(newOwner) ==
    LET r == ownResult(assigned, owner, newOwner) IN
    /\ owner' = r.owner
    /\ assigned' = r.assigned
    /\ ctxLast' = [NoCtxCall EXCEPT !.op = "own", !.candidate = newOwner,
                      !.threw = r.threw]
    /\ UNCHANGED <<ctxValue, ctxSubscribers, ctxHandles, parent>>
    /\ UNCHANGED <<cellVars, routerVars>>

\* p.appendChild(n) moves n under p (the DOM refuses to create a cycle);
\* n.remove() detaches it.
AppendChild(p, n) ==
    /\ ~contains(parent, n, p)
    /\ parent[n] # p
    /\ parent' = [parent EXCEPT ![n] = p]
    /\ ctxLast' = [NoCtxCall EXCEPT !.op = "move"]
    /\ UNCHANGED <<owner, assigned, ctxValue, ctxSubscribers, ctxHandles>>
    /\ UNCHANGED <<cellVars, routerVars>>

Remove(n) ==
    /\ parent[n] # NoNode
    /\ parent' = [parent EXCEPT ![n] = NoNode]
    /\ ctxLast' = [NoCtxCall EXCEPT !.op = "move"]
    /\ UNCHANGED <<owner, assigned, ctxValue, ctxSubscribers, ctxHandles>>
    /\ UNCHANGED <<cellVars, routerVars>>

\* Code that subscribes each of its functions from one place: f1 with the
\* node child as candidate, f4 without a candidate.
From(fn) == IF fn = UserFn(1) THEN "child" ELSE NoNode
ScopeNext ==
    \/ \E fn \in {UserFn(1), UserFn(4)} : CtxSubscribe(fn, From(fn))
    \/ \E v \in CtxValues, c \in Candidates : CtxSet(v, c)
    \/ \E h \in ctxHandles : CtxUnsubscribe(h)
    \/ \E n \in Nodes : Own(n)
    \/ \E p \in Nodes, n \in Nodes : AppendChild(p, n)
    \/ \E n \in Nodes : Remove(n)

CtxNext ==
    \/ \E c \in Candidates : CtxGet(c)
    \/ \E v \in CtxValues, c \in Candidates : CtxSet(v, c)
    \/ \E fn \in UserFns, c \in Candidates : CtxSubscribe(fn, c)
    \/ \E h \in ctxHandles : CtxUnsubscribe(h)
    \/ \E n \in Nodes : Own(n)
    \/ \E p \in Nodes, n \in Nodes : AppendChild(p, n)
    \/ \E n \in Nodes : Remove(n)

(***************************************************************************)
(* Paths and matchRoute.  A path is the sequence 'path'.split('/') yields,  *)
(* so two paths are the same string iff they are the same sequence; a part  *)
(* is its text, with a leading ':' kept apart.                             *)
(***************************************************************************)
PathA == <<EmptyPart, Lit("a")>>
PathB == <<EmptyPart, Lit("b")>>
PathP == <<EmptyPart, Lit("p")>>
PathUserId == <<EmptyPart, Lit("u"), Param("id")>>
PathUser1 == <<EmptyPart, Lit("u"), Lit("1")>>
PathAny == <<EmptyPart, Param("x")>>
WildcardPath == <<EmptyPart, Lit("*")>>

\* .split('/').filter(p => p)
Parts(path) == SelectSeq(path, LAMBDA part : part # EmptyPart)

matchRouteUnfiltered(routePath, currentPath) ==
    IF routePath = currentPath
    THEN [matched |-> TRUE, isWildcard |-> FALSE, params |-> <<>>]
    ELSE IF routePath = WildcardPath
    THEN [matched |-> TRUE, isWildcard |-> TRUE, params |-> <<>>]
    ELSE LET routeParts == routePath
             pathParts == currentPath
             named == {i \in 1..Len(routeParts) : routeParts[i].colon}
         IN  IF Len(routeParts) # Len(pathParts) THEN NoMatch
             ELSE IF \E i \in 1..Len(routeParts) :
                        ~routeParts[i].colon /\ routeParts[i] # pathParts[i]
             THEN NoMatch
             ELSE [matched |-> TRUE, isWildcard |-> FALSE,
                   params |-> [n \in {routeParts[i].name : i \in named} |->
                       pathParts[CHOOSE i \in named :
                           /\ routeParts[i].name = n
                           /\ \A j \in named : routeParts[j].name = n => j <= i]]]
matchRoute(routePath, currentPath) ==
    IF routePath = currentPath
    THEN [matched |-> TRUE, isWildcard |-> FALSE, params |-> <<>>]
    ELSE IF routePath = WildcardPath
    THEN [matched |-> TRUE, isWildcard |-> TRUE, params |-> <<>>]
    ELSE LET routeParts == Parts(routePath)
             pathParts == Parts(currentPath)
             named == {i \in 1..Len(routeParts) : routeParts[i].colon}
         IN  IF Len(routeParts) # Len(pathParts) THEN NoMatch
             ELSE IF \E i \in 1..Len(routeParts) :
                        ~routeParts[i].colon /\ routeParts[i] # pathParts[i]
             THEN NoMatch
             ELSE [matched |-> TRUE, isWildcard |-> FALSE,
                   params |-> [n \in {routeParts[i].name : i \in named} |->
                       pathParts[CHOOSE i \in named :
                           /\ routeParts[i].name = n
                           /\ \A j \in named : routeParts[j].name = n => j <= i]]]

(***************************************************************************)
(* The views of the route tables.  A component factory may change a cell    *)
(* while it builds (`sets`), returns a plain markup string (builds FALSE)   *)
(* or an UltraComponent node with triggers on cells and, as its `cleanup`   *)
(* entry, the teardown of an ultraEffect over the cells of `effect`, whose  *)
(* action returns a per-run teardown when `teardown` is TRUE.  A markup     *)
(* string without a tag (tag FALSE) is one parseHTMLString turns into null. *)
(* `children` are the views of the `children` prop, each passed as a built  *)
(* node, as an UltraFragment holding it, as an UltraLink holding it, or as   *)
(* the node of the child before it once more; `cleanup` are the functions of the `cleanup` prop that are *)
(* not effect teardowns, by whether they throw.  A view with a `type` other  *)
(* than "none" is built by UltraActivity, `mode` being the cells whose       *)
(* subscribe functions are mode.subscriber and mode.state being              *)
(* () => every one of these cells holds 1.  With `when` a cell, the action   *)
(* of the effect returns its teardown only in a run started while that cell  *)
(* holds 1: () => get() === 1 ? teardown : undefined.  A `raw` view is an    *)
(* element the factory gave a _cleanup of its own that throws.  With `fails` *)
(* "throw" the action of the effect throws when it is called, with "reject"  *)
(* it returns a promise that is rejected.  `defer` are the positions of the  *)
(* triggers declared with defer: true, `onMount` the functions of the        *)
(* onMount prop, by whether they throw, `eventHandler` the keys of the       *)
(* eventHandler prop, each with a handler.                                   *)
(***************************************************************************)
View(name) == [name |-> name, builds |-> TRUE, tag |-> TRUE, sets |-> "none",
               effect |-> <<>>, teardown |-> FALSE, trigger |-> <<>>,
               children |-> <<>>, cleanup |-> <<>>, type |-> "none", mode |-> <<>>,
               when |-> "none", raw |-> FALSE, fails |-> "none",
               defer |-> {}, onMount |-> <<>>, eventHandler |-> <<>>]
ViewA == [View("A") EXCEPT !.effect = <<"s1", "s2">>, !.trigger = <<"s1">>]
ViewB == [View("B") EXCEPT !.sets = "s2", !.effect = <<"s1">>, !.teardown = TRUE,
                           !.trigger = <<"s2">>]
ViewP == [View("P") EXCEPT !.builds = FALSE]
ViewT == [View("T") EXCEPT !.builds = FALSE, !.tag = FALSE]
ViewW == [View("W") EXCEPT !.trigger = <<"s1">>]
ViewX == [View("X") EXCEPT !.raw = TRUE]
ViewY == [View("Y") EXCEPT !.cleanup = <<"return", "throw", "return">>,
                           !.trigger = <<"s1">>]

Route(path, view) == [path |-> path, view |-> view]
RouteTables ==
    { <<Route(PathA, ViewA), Route(PathB, ViewB), Route(PathP, ViewP),
        Route(WildcardPath, ViewW)>>,
      <<Route(PathA, ViewA), Route(PathUserId, ViewB), Route(PathP, ViewP)>>,
      <<Route(PathA, ViewT), Route(PathAny, ViewP), Route(WildcardPath, ViewW)>>,
      <<Route(PathA, ViewX), Route(PathB, ViewY), Route(PathP, ViewP)>> }
Paths == {PathA, PathB, PathP, PathUser1}

\* Navigations a behaviour makes after the first render.
MaxNav == 3

(***************************************************************************)
(* The heap a task works on: the cells, the nodes built, the effects, the   *)
(* microtask queue, the router's closure, and the events of the task.       *)
(* `thrown` holds while an exception is on its way up the call stack.       *)
(***************************************************************************)
World == [cells |-> cells, insts |-> insts, effects |-> effects,
          microtasks |-> microtasks, frames |-> frames,
          currentCleanup |-> currentCleanup,
          content |-> content, events |-> <<>>, thrown |-> FALSE]

Event(type, inst, kind, route, stale) ==
    [type |-> type, inst |-> inst, kind |-> kind, route |-> route, stale |-> stale]
emit(w, e) == [w EXCEPT !.events = Append(@, e)]


Microtask(kind, inst, pos) == [kind |-> kind, inst |-> inst, pos |-> pos]

\* A callback given to requestAnimationFrame: the run of a deferred trigger's
\* triggerFunction, or of an onMount function, with the node it will get.
Frame(kind, inst, idx, how) == [kind |-> kind, inst |-> inst, idx |-> idx, how |-> how]
NoEffect == [mainCleanup |-> FALSE, returnsTeardown |-> FALSE, unsubscribers |-> <<>>,
             stopped |-> FALSE, torn |-> FALSE, captured |-> 0, when |-> "none",
             fails |-> "none"]

\* The teardown functions of an effect that are still referenced: the one
\* in mainCleanup and the results of the runs runFn has not looked at yet.
\* A function is named by a number; the order of the numbers is the order
\* in which the runs that returned them started.
liveRuns(w, inst) ==
    ({w.effects[inst].captured} \ {0})
        \cup {w.microtasks[i].pos : i \in {j \in 1..Len(w.microtasks) :
                   /\ w.microtasks[j].kind = "runFn"
                   /\ w.microtasks[j].inst = inst
                   /\ w.microtasks[j].pos # 0}}
freshRun(w, inst) ==
    1 + Cardinality(liveRuns(w, inst))

\* fn() of a run that starts now returns a function.
returnsFunction(w, inst) ==
    /\ w.effects[inst].returnsTeardown
    /\ w.effects[inst].when # "none" => w.cells[w.effects[inst].when].value = Num(1)

\* ultraEffect's runFn: `await fn()` starts the action now; what follows the
\* await (the capture of the teardown it returned) is a microtask that
\* holds the result: the function returned, or 0 for anything else.
runFnCleansPrevious(w, inst) ==
    Then(IF w.effects[inst].mainCleanup
         THEN emit(w, Event("mainCleanup", inst, "runFn", w.effects[inst].captured,
                            w.insts[inst].displaced))
         ELSE w, LAMBDA w0 :
    [emit(w0, Event("run", inst, "runFn", 0, w0.insts[inst].displaced))
        EXCEPT !.microtasks = Append(@, Microtask("runFn", inst,
                   IF returnsFunction(w0, inst) THEN freshRun(w0, inst) ELSE 0))])
runFnNotCaught(w, inst) ==
    IF w.effects[inst].fails = "throw"
    THEN [emit(w, Event("run", inst, "runFn", 0, w.insts[inst].displaced))
             EXCEPT !.thrown = TRUE]
    ELSE [emit(w, Event("run", inst, "runFn", 0, w.insts[inst].displaced))
             EXCEPT !.microtasks = Append(@, Microtask("runFn", inst,
                        IF returnsFunction(w, inst) THEN freshRun(w, inst) ELSE 0))]
runFn(w, inst) ==
    IF w.effects[inst].fails = "throw"
    THEN \* fn() throws inside the try block: catch (error) { console.error(...) }
         emit(emit(w, Event("run", inst, "runFn", 0, w.insts[inst].displaced)),
              Event("error", inst, "effect", 0, FALSE))
    ELSE [emit(w, Event("run", inst, "runFn", 0, w.insts[inst].displaced))
             EXCEPT !.microtasks = Append(@, Microtask("runFn", inst,
                        IF returnsFunction(w, inst) THEN freshRun(w, inst) ELSE 0))]

\* The functions still referenced are renumbered 1, 2, ... in their order.
compact(w, inst) ==
    LET live == liveRuns(w, inst)
        rank(x) == IF x = 0 THEN 0 ELSE Cardinality({y \in live : y <= x})
    IN  [w EXCEPT
            !.effects[inst].captured = rank(@),
            !.microtasks = [i \in 1..Len(@) |->
                IF @[i].kind = "runFn" /\ @[i].inst = inst
                THEN [@[i] EXCEPT !.pos = rank(@)] ELSE @[i]]]

\* runFn after `await fn()`, m being the continuation taken off the queue:
\* if (typeof result === "function") mainCleanup = result; a rejection is
\* thrown by the await into the catch block.
resolved(w, m) ==
    IF w.effects[m.inst].fails = "reject"
    THEN emit(w, Event("error", m.inst, "effect", 0, FALSE)) ELSE
    compact(IF m.pos # 0
            THEN [w EXCEPT !.effects[m.inst].mainCleanup = TRUE,
                           !.effects[m.inst].captured = m.pos]
            ELSE w, m.inst)

\* mode.state() of an UltraActivity node.
modeState(w, inst) ==
    \A i \in 1..Len(w.insts[inst].mode) : w.cells[w.insts[inst].mode[i]].value = Num(1)

\* UltraActivity's update: the channel of `type` is set from mode.state().
update(w, inst) ==
    LET current == modeState(w, inst) IN
    IF w.insts[inst].type = "display"
    THEN [w EXCEPT !.insts[inst].display = IF current THEN "" ELSE "none"]
    ELSE IF w.insts[inst].type = "visibility"
    THEN [w EXCEPT !.insts[inst].visibility = IF current THEN "visible" ELSE "hidden"]
    ELSE w

\* A cell calls one of its subscribers: a trigger's callback runs the
\* triggerFunction, an effect's runFn re-runs the action.
invokeDeferredAtOnce(w, call) ==
    LET cb == call.fn
    IN  Then(emit(w, Event("call", cb.inst, cb.kind, 0, w.insts[cb.inst].displaced)),
             LAMBDA w1 : IF cb.kind = "runFn" THEN runFn(w1, cb.inst)
                         ELSE IF cb.kind = "update" THEN update(w1, cb.inst)
                         ELSE IF cb.kind = "deferred"
                         THEN emit(w1, Event("triggerFunction", cb.inst, "deferred", cb.idx,
                                             w1.insts[cb.inst].cleanups > 0))
                         ELSE w1)
invoke(w, call) ==
    LET cb == call.fn
    IN  Then(emit(w, Event("call", cb.inst, cb.kind, 0, w.insts[cb.inst].displaced)),
             LAMBDA w1 : IF cb.kind = "runFn" THEN runFn(w1, cb.inst)
                         ELSE IF cb.kind = "update" THEN update(w1, cb.inst)
                         ELSE IF cb.kind = "deferred"
                         THEN \* () => requestAnimationFrame(() => triggerFunction(node))
                              [w1 EXCEPT !.frames =
                                  Append(@, Frame("trigger", cb.inst, cb.idx, "return"))]
                         ELSE w1)

RECURSIVE notify(_, _)
notify(w, calls) ==
    IF calls = <<>> THEN w
    ELSE Then(invoke(w, Head(calls)), LAMBDA w1 :
              \* try { fn(value) } catch (error) { console.error(...) }
              notify(IF w1.thrown
                     THEN [emit(w1, Event("error", Head(calls).fn.inst, "subscriber",
                                          0, FALSE)) EXCEPT !.thrown = FALSE]
                     ELSE w1, Tail(calls)))

\* setValue of cell c, with the subscribers' effects.
cellSet(w, c, newValue) ==
    Then(setValue(w.cells[c], newValue),
         LAMBDA r : notify([w EXCEPT !.cells[c] = r.cell], r.calls))

\* set(get() + 1) on a counter that wraps.
Toggle(v) == Num(1 - v.n)

\* ultraEffect(fn, subscriberArray): runFn(), then subscriber(runFn) per source.
ultraEffectFirstSource(w, inst, view) ==
    Then(runFn([w EXCEPT !.effects[inst] =
                   [mainCleanup |-> FALSE, returnsTeardown |-> view.teardown,
                    unsubscribers |-> view.effect, stopped |-> FALSE, torn |-> FALSE,
                    captured |-> 0, when |-> view.when, fails |-> view.fails]], inst),
         LAMBDA w1 :
        \* an exception thrown by runFn() would end the call of ultraEffect
        IF w1.thrown THEN w1 ELSE
        [w1 EXCEPT
            !.cells[view.effect[1]] = subscribe(@, Callback("runFn", inst, 0))])
ultraEffect(w, inst, view) ==
    Then(runFn([w EXCEPT !.effects[inst] =
                   [mainCleanup |-> FALSE, returnsTeardown |-> view.teardown,
                    unsubscribers |-> view.effect, stopped |-> FALSE, torn |-> FALSE,
                    captured |-> 0, when |-> view.when, fails |-> view.fails]], inst),
         LAMBDA w1 :
        \* an exception thrown by runFn() would end the call of ultraEffect
        IF w1.thrown THEN w1 ELSE
        [w1 EXCEPT
            !.cells = [c \in CellIds |->
                IF c \in Range(view.effect)
                THEN subscribe(w1.cells[c], Callback("runFn", inst, 0))
                ELSE w1.cells[c]]])

\* The loop of the combined teardown from position pos: unsub() is called,
\* `await Promise.resolve(...)` leaves the rest of the loop to a microtask;
\* past the last position the teardown has completed.
RECURSIVE teardownFromAtOnce(_, _, _)
teardownFromAtOnce(w, inst, pos) ==
    LET unsubscribers == w.effects[inst].unsubscribers
    IN  IF pos > Len(unsubscribers) THEN [w EXCEPT !.effects[inst].torn = TRUE]
        ELSE teardownFromAtOnce(
                 [emit(w, Event("unsub", inst, unsubscribers[pos], 0, FALSE)) EXCEPT
                     !.cells[unsubscribers[pos]] = unsubscribe(@, Callback("runFn", inst, 0))],
                 inst, pos + 1)
teardownFrom(w, inst, pos) ==
    LET unsubscribers == w.effects[inst].unsubscribers
    IN  IF pos > Len(unsubscribers) THEN [w EXCEPT !.effects[inst].torn = TRUE]
        ELSE [emit(w, Event("unsub", inst, unsubscribers[pos], 0, FALSE)) EXCEPT
                !.cells[unsubscribers[pos]] = unsubscribe(@, Callback("runFn", inst, 0)),
                !.microtasks = Append(@, Microtask("teardown", inst, pos + 1))]

\* A run of the action has started whose result runFn has not yet looked at.
pendingRun(w, inst) ==
    \E i \in 1..Len(w.microtasks) :
        w.microtasks[i].kind = "runFn" /\ w.microtasks[i].inst = inst

\* The combined teardown ultraEffect returns, up to its first await.
effectTeardownOfLatestRun(w, inst) ==
    Then([emit(w, Event("teardown", inst, "runFn", 0, pendingRun(w, inst)))
             EXCEPT !.effects[inst].stopped = TRUE], LAMBDA w1 :
        IF w1.effects[inst].mainCleanup \/ w1.effects[inst].returnsTeardown
        THEN [emit(w1, Event("mainCleanup", inst, "runFn", w1.effects[inst].captured,
                         w1.insts[inst].displaced))
                EXCEPT !.microtasks = Append(@, Microtask("teardown", inst, 1))]
        ELSE teardownFrom(w1, inst, 1))
effectTeardown(w, inst) ==
    Then([emit(w, Event("teardown", inst, "runFn", 0, pendingRun(w, inst)))
             EXCEPT !.effects[inst].stopped = TRUE], LAMBDA w1 :
        IF w1.effects[inst].mainCleanup
        THEN [emit(w1, Event("mainCleanup", inst, "runFn", w1.effects[inst].captured,
                         w1.insts[inst].displaced))
                EXCEPT !.microtasks = Append(@, Microtask("teardown", inst, 1))]
        ELSE teardownFrom(w1, inst, 1))

\* UltraComponent: the removal of each event handler is pushed; the _cleanup
\* of each child that has one is pushed; each
\* trigger subscribes its callback and pushes the unsubscribe; then the
\* `cleanup` entries are pushed; node._cleanup is set.  The closures of a
\* call are new ones: they are numbered past those the node's _cleanup held
\* before the call.
RECURSIVE subscribeAll(_, _)
subscribeAll(cell, fns) ==
    IF fns = <<>> THEN cell ELSE subscribeAll(subscribe(cell, Head(fns)), Tail(fns))

UltraComponent(w, inst, view, childCleanups) ==
    LET past == Len(w.insts[inst].cleanupFunctions)
        cb(i) == Callback(IF i \in view.defer THEN "deferred" ELSE "trigger",
                          inst, past + i)
        callbacksOn(c) ==
            LET on == SelectSeq([i \in 1..Len(view.trigger) |->
                                    [cell |-> view.trigger[i], fn |-> cb(i)]],
                                LAMBDA t : t.cell = c)
            IN  [k \in 1..Len(on) |-> on[k].fn]
        handlers == [i \in 1..Len(view.eventHandler) |->
                        [kind |-> "listener", cell |-> "none",
                         fn |-> Callback(view.eventHandler[i], inst, past + i)]]
        children == [i \in 1..Len(childCleanups) |->
                        [kind |-> "child", cell |-> "none",
                         fn |-> Callback("node", childCleanups[i], 0)]]
        triggers == [i \in 1..Len(view.trigger) |->
                        [kind |-> "unsub", cell |-> view.trigger[i], fn |-> cb(i)]]
        extra == IF view.effect = <<>> THEN <<>>
                 ELSE <<[kind |-> "effect", cell |-> "none",
                         fn |-> Callback("runFn", inst, 0)]>>
        given == [i \in 1..Len(view.cleanup) |->
                        [kind |-> view.cleanup[i], cell |-> "none",
                         fn |-> Callback("cleanup", inst, past + i)]]
    IN  [w EXCEPT
            \* onMount.forEach(fn => requestAnimationFrame(() => { try { fn(node) } ... }))
            !.frames = @ \o [i \in 1..Len(view.onMount) |->
                                Frame("onMount", inst, i, view.onMount[i])],
            !.cells = [c \in CellIds |-> subscribeAll(w.cells[c], callbacksOn(c))],
            !.insts[inst].cleanupFunctions =
                handlers \o children \o triggers \o extra \o given]

\* UltraActivity: as UltraComponent, with update subscribed to every
\* mode subscriber (the unsubscribes pushed after the children's cleanups)
\* and called once before the triggers are subscribed.
UltraActivityNoUpdate(w, inst, view, childCleanups) ==
    LET modes == [i \in 1..Len(view.mode) |->
                     [kind |-> "unsub", cell |-> view.mode[i],
                      fn |-> Callback("update", inst, 0)]]
    IN  Then([w EXCEPT !.cells = [c \in CellIds |->
                          IF c \in Range(view.mode)
                          THEN subscribe(w.cells[c], Callback("update", inst, 0))
                          ELSE w.cells[c]]], LAMBDA w1 :
        Then(UltraComponent(w1, inst, view, childCleanups), LAMBDA w3 :
             [w3 EXCEPT !.insts[inst].cleanupFunctions =
                 SubSeq(@, 1, Len(view.eventHandler) + Len(childCleanups)) \o modes
                     \o SubSeq(@, Len(view.eventHandler) + Len(childCleanups) + 1,
                               Len(@))]))
UltraActivity(w, inst, view, childCleanups) ==
    LET modes == [i \in 1..Len(view.mode) |->
                     [kind |-> "unsub", cell |-> view.mode[i],
                      fn |-> Callback("update", inst, 0)]]
    IN  Then([w EXCEPT !.cells = [c \in CellIds |->
                          IF c \in Range(view.mode)
                          THEN subscribe(w.cells[c], Callback("update", inst, 0))
                          ELSE w.cells[c]]], LAMBDA w1 :
        Then(update(w1, inst), LAMBDA w2 :
        Then(UltraComponent(w2, inst, view, childCleanups), LAMBDA w3 :
             [w3 EXCEPT !.insts[inst].cleanupFunctions =
                 SubSeq(@, 1, Len(view.eventHandler) + Len(childCleanups)) \o modes
                     \o SubSeq(@, Len(view.eventHandler) + Len(childCleanups) + 1,
                               Len(@))])))

RECURSIVE nodeCleanup(_, _)

\* Entry k of the cleanupFunctions of inst is called: a child's _cleanup, an
\* unsubscribe, the teardown of an effect, or a function of the `cleanup`
\* prop, which returns or throws.
runEntry(w, inst, k) ==
    LET e == w.insts[inst].cleanupFunctions[k] IN
    Then(emit(w, Event("entry", inst, e.kind, k, e.kind = "throw")), LAMBDA w1 :
        IF e.kind = "unsub" THEN [w1 EXCEPT !.cells[e.cell] = unsubscribe(@, e.fn)]
        ELSE IF e.kind = "effect" THEN effectTeardown(w1, e.fn.inst)
        ELSE IF e.kind = "child" THEN nodeCleanup(w1, e.fn.inst)
        ELSE w1)

\* cleanupFunctions.forEach(cleanup => { try { cleanup() } catch { console.error } })
\* from entry k on.
RECURSIVE runEntriesUncaught(_, _, _)
runEntriesUncaught(w, inst, k) ==
    IF k > Len(w.insts[inst].cleanupFunctions) THEN w
    ELSE IF w.insts[inst].cleanupFunctions[k].kind = "throw" THEN runEntry(w, inst, k)
    ELSE Then(runEntry(w, inst, k), LAMBDA w1 : runEntriesUncaught(w1, inst, k + 1))
RECURSIVE runEntriesLastFirst(_, _, _)
runEntriesLastFirst(w, inst, k) ==
    LET n == Len(w.insts[inst].cleanupFunctions) IN
    IF k > n THEN w
    ELSE Then(runEntry(w, inst, n + 1 - k), LAMBDA w1 :
         Then(IF w1.insts[inst].cleanupFunctions[n + 1 - k].kind = "throw" \/ w1.thrown
              THEN [emit(w1, Event("error", inst, "throw", n + 1 - k, FALSE))
                       EXCEPT !.thrown = FALSE]
              ELSE w1, LAMBDA w2 :
              runEntriesLastFirst(w2, inst, k + 1)))
RECURSIVE runEntries(_, _, _)
runEntries(w, inst, k) ==
    IF k > Len(w.insts[inst].cleanupFunctions) THEN w
    ELSE Then(runEntry(w, inst, k), LAMBDA w1 :
         Then(IF w1.insts[inst].cleanupFunctions[k].kind = "throw" \/ w1.thrown
              THEN [emit(w1, Event("error", inst, "throw", k, FALSE))
                       EXCEPT !.thrown = FALSE]
              ELSE w1, LAMBDA w2 :
              runEntries(w2, inst, k + 1)))

\* node._cleanup(): the aggregate cleanup of a built node.
nodeCleanup(w, inst) ==
    Then([emit(w, Event("cleanup", inst, "node", 0, w.insts[inst].displaced))
             EXCEPT !.insts[inst].cleanups = @ + 1],
         LAMBDA w1 : IF w1.insts[inst].raw THEN [w1 EXCEPT !.thrown = TRUE]
                     ELSE runEntries(w1, inst, 1))

RECURSIVE component(_, _, _)

\* UltraLink({href, children: [child]}): the child is appended to the anchor;
\* link._cleanup removes the click listener and nothing else.
UltraLink(w, child) ==
    [w EXCEPT
        !.insts = Append([@ EXCEPT ![child].via = "link"],
                         [view |-> "link", hasCleanup |-> TRUE,
                          cleanupFunctions |->
                              <<[kind |-> "listener", cell |-> "none",
                                 fn |-> Callback("click", Len(w.insts) + 1, 0)]>>,
                          cleanups |-> 0, displaced |-> FALSE, kids |-> <<child>>,
                          raw |-> FALSE, built |-> 1, via |-> "node",
                          type |-> "none", mode |-> <<>>,
                          display |-> "", visibility |-> ""]),
        !.effects = Append(@, NoEffect)]

\* hasCleanup(childElement): '_cleanup' in the object that was passed in
\* `children`: a node, or the DocumentFragment an UltraFragment returned.
hasCleanupOfContent(w, how, inst) ==
    w.insts[inst].hasCleanup
hasCleanup(w, how, inst) ==
    how # "fragment" /\ w.insts[inst].hasCleanup

\* The `children` of a view are built, one after another, before the call
\* of UltraComponent that takes them: the nodes appended so far (kids) and
\* those among them passed as a node that has _cleanup (pushed).
RECURSIVE buildChildren(_, _, _, _)
buildChildren(b, r, children, i) ==
    IF i > Len(children) THEN b
    ELSE IF children[i].how = "again"
    THEN buildChildren([b EXCEPT !.pushed =
                            IF b.w.insts[b.kids[Len(b.kids)]].hasCleanup
                            THEN Append(@, b.kids[Len(b.kids)]) ELSE @],
                       r, children, i + 1)
    ELSE Then(component(b.w, r, children[i].view), LAMBDA w0 :
         Then(IF children[i].how = "link" THEN UltraLink(w0, Len(w0.insts))
              ELSE [w0 EXCEPT !.insts[Len(w0.insts)].via = children[i].how], LAMBDA w1 :
            buildChildren([w |-> w1,
                           kids |-> Append(b.kids, Len(w1.insts)),
                           pushed |-> IF hasCleanup(w1, children[i].how, Len(w1.insts))
                                      THEN Append(b.pushed, Len(w1.insts))
                                      ELSE b.pushed],
                          r, children, i + 1)))

\* route.component(params): the factory of route r runs.
component(w, r, view) ==
    LET newNode(b) ==
            [b.w EXCEPT
                !.insts = Append(@, [view |-> view.name, hasCleanup |-> view.builds,
                                     cleanupFunctions |-> <<>>, cleanups |-> 0,
                                     displaced |-> FALSE, kids |-> b.kids,
                                     raw |-> view.raw,
                                     built |-> IF view.builds THEN 1 ELSE 0,
                                     via |-> "root",
                                     \* if (!supportedTypes.includes(type)) type = 'display'
                                     type |-> IF view.type \in {"none", "display", "visibility"}
                                              THEN view.type ELSE "display",
                                     mode |-> view.mode,
                                     display |-> "", visibility |-> ""]),
                !.effects = Append(@, NoEffect)]
    IN  Then(emit(w, Event("factory", NoInst, view.name, r, FALSE)), LAMBDA w0 :
        Then(IF view.sets = "none" THEN w0
             ELSE cellSet(w0, view.sets, Toggle(w0.cells[view.sets].value)), LAMBDA w1 :
        Then(buildChildren([w |-> w1, kids |-> <<>>, pushed |-> <<>>],
                           r, view.children, 1), LAMBDA b :
        Then(newNode(b), LAMBDA w2 :
        Then(IF view.effect # <<>> THEN ultraEffect(w2, Len(w2.insts), view) ELSE w2,
             LAMBDA w3 :
             \* an exception thrown by ultraEffect would end the factory
             IF ~view.builds \/ view.raw \/ w3.thrown THEN w3
             ELSE IF view.type # "none"
             THEN UltraActivity(w3, Len(w3.insts), view, b.pushed)
             ELSE UltraComponent(w3, Len(w3.insts), view, b.pushed))))))

\* UltraComponent or UltraActivity with the props of `view` is called with
\* the built node inst as its `component`: parseHTMLString returns the node
\* itself, cleanupFunctions starts empty, node._cleanup is assigned anew.
rebuildAppending(w, inst, view) ==
    Then([w EXCEPT !.insts[inst].built = @ + 1,
                   !.insts[inst].type = IF view.type = "none" THEN @ ELSE view.type,
                   !.insts[inst].mode = IF view.type = "none" THEN @ ELSE view.mode],
         LAMBDA w1 :
    Then(IF view.type # "none" THEN UltraActivity(w1, inst, view, <<>>)
         ELSE UltraComponent(w1, inst, view, <<>>), LAMBDA w2 :
         [w2 EXCEPT !.insts[inst].cleanupFunctions = w.insts[inst].cleanupFunctions \o @]))
rebuild(w, inst, view) ==
    Then([w EXCEPT !.insts[inst].built = @ + 1,
                   !.insts[inst].type = IF view.type = "none" THEN @ ELSE view.type,
                   !.insts[inst].mode = IF view.type = "none" THEN @ ELSE view.mode],
         LAMBDA w1 :
         IF view.type # "none" THEN UltraActivity(w1, inst, view, <<>>)
         ELSE UltraComponent(w1, inst, view, <<>>))

(***************************************************************************)
(* UltraRouter                                                             *)
(***************************************************************************)
\* if (currentCleanup) { try { currentCleanup() } catch ... }
cleanupCurrentUncaught(w) ==
    IF w.currentCleanup # NoInst THEN nodeCleanup(w, w.currentCleanup) ELSE w
cleanupCurrent(w) ==
    IF w.currentCleanup # NoInst
    THEN Then(nodeCleanup(w, w.currentCleanup), LAMBDA w1 :
             IF w1.thrown
             THEN [emit(w1, Event("error", w.currentCleanup, "router", 0, FALSE))
                      EXCEPT !.thrown = FALSE]
             ELSE w1)
    ELSE w

\* Bookkeeping: the node in the container is on its way out.
markDisplaced(w) ==
    IF w.content # NoInst THEN [w EXCEPT !.insts[w.content].displaced = TRUE] ELSE w

\* parseHTMLString(component): the node the factory built, the first element
\* of its markup, or null when the markup has no tag.
parseHTMLString(built, view) ==
    IF view.builds \/ view.tag THEN Len(built.insts) ELSE NoInst

\* route.component(): the factory is called without arguments, which the
\* `stale` of its factory event records.
componentNoParams(w, r, view) ==
    Then(component(w, r, view), LAMBDA built :
        [built EXCEPT !.events[Len(w.events) + 1].stale = TRUE])

\* routes.forEach(route => ...): from route i on, with the targetComponent
\* and the wildcardComponent found so far.
RECURSIVE scanRoutesUntilTarget(_, _, _, _, _, _)
scanRoutesUntilTarget(w, table, currentPath, i, targetComponent, wildcardComponent) ==
    IF i > Len(table) \/ targetComponent # NoInst
    THEN [w |-> w, targetComponent |-> targetComponent,
          wildcardComponent |-> wildcardComponent]
    ELSE LET match == matchRoute(table[i].path, currentPath)
         IN  IF match.matched /\ ~match.isWildcard
             THEN Then(component(w, i, table[i].view), LAMBDA built :
                      scanRoutesUntilTarget(built, table, currentPath, i + 1,
                                 parseHTMLString(built, table[i].view), wildcardComponent))
             ELSE IF match.matched /\ match.isWildcard
             THEN Then(componentNoParams(w, i, table[i].view), LAMBDA built :
                      scanRoutesUntilTarget(built, table, currentPath, i + 1,
                                 targetComponent, parseHTMLString(built, table[i].view)))
             ELSE scanRoutesUntilTarget(w, table, currentPath, i + 1,
                             targetComponent, wildcardComponent)
RECURSIVE scanRoutes(_, _, _, _, _, _)
scanRoutes(w, table, currentPath, i, targetComponent, wildcardComponent) ==
    IF i > Len(table)
    THEN [w |-> w, targetComponent |-> targetComponent,
          wildcardComponent |-> wildcardComponent]
    ELSE LET match == matchRoute(table[i].path, currentPath)
         IN  IF match.matched /\ ~match.isWildcard /\ targetComponent = NoInst
             THEN Then(component(w, i, table[i].view), LAMBDA built :
                      scanRoutes(built, table, currentPath, i + 1,
                                 parseHTMLString(built, table[i].view), wildcardComponent))
             ELSE IF match.matched /\ match.isWildcard
             THEN Then(componentNoParams(w, i, table[i].view), LAMBDA built :
                      scanRoutes(built, table, currentPath, i + 1,
                                 targetComponent, parseHTMLString(built, table[i].view)))
             ELSE scanRoutes(w, table, currentPath, i + 1,
                             targetComponent, wildcardComponent)

\* container.innerHTML = ''; appendChild(targetComponent); currentCleanup = ...
mount(w, targetComponent) ==
    [w EXCEPT
        !.content = targetComponent,
        !.currentCleanup =
            IF targetComponent # NoInst /\ w.insts[targetComponent].hasCleanup
            THEN targetComponent ELSE @]

\* The scan of the table, and `if (!targetComponent && wildcardComponent)`.
resolve(w, table, currentPath) ==
    Then(scanRoutes(w, table, currentPath, 1, NoInst, NoInst), LAMBDA s :
        [w |-> s.w,
         targetComponent |->
            IF s.targetComponent = NoInst /\ s.wildcardComponent # NoInst
            THEN s.wildcardComponent ELSE s.targetComponent])

renderRouteBuildFirst(w, table, currentPath) ==
    Then(resolve(emit(w, Event("render", w.content, "router", 0, FALSE)),
                 table, currentPath), LAMBDA s :
    Then(cleanupCurrent(s.w), LAMBDA w1 :
    Then(markDisplaced(w1), LAMBDA w2 : mount(w2, s.targetComponent))))
renderRoute(w, table, currentPath) ==
    Then(cleanupCurrent(emit(w, Event("render", w.content, "router", 0, FALSE))),
         LAMBDA w1 :
    \* an exception that leaves the try block ends the call
    IF w1.thrown THEN w1 ELSE
    Then(markDisplaced(w1), LAMBDA w2 :
    Then(resolve(w2, table, currentPath), LAMBDA s : mount(s.w, s.targetComponent))))

\* The heap becomes the next state.
Commit(w) ==
    /\ cells' = w.cells
    /\ insts' = w.insts
    /\ effects' = w.effects
    /\ microtasks' = w.microtasks
    /\ frames' = w.frames
    /\ currentCleanup' = w.currentCleanup
    /\ content' = w.content
    /\ routerLast' = w.events

\* UltraRouter(...routes) has returned: the first render at the current
\* path is done and the popstate handler is registered.
RouterInit ==
    \E table \in RouteTables, path \in Paths :
        \E w \in {renderRoute(
                    [cells |-> IdleCells,
                     insts |-> <<>>, effects |-> <<>>, microtasks |-> <<>>,
                     frames |-> <<>>,
                     currentCleanup |-> NoInst, content |-> NoInst, events |-> <<>>,
                     thrown |-> FALSE],
                    table, path)} :
            /\ routes = table
            /\ pathname = path
            /\ listening = TRUE
            /\ navs = 0
            /\ cells = w.cells
            /\ insts = w.insts
            /\ effects = w.effects
            /\ microtasks = w.microtasks
            /\ frames = w.frames
            /\ currentCleanup = w.currentCleanup
            /\ content = w.content
            /\ routerLast = w.events
            /\ matchLast = NoMatch
            /\ frozen = {}
            /\ written = {}
            /\ handles = {}
            /\ cellLast = NoCall
            /\ owner = NoNode
            /\ assigned = FALSE
            /\ ctxValue = Str("light")
            /\ ctxSubscribers = <<>>
            /\ ctxHandles = {}
            /\ parent = Document
            /\ ctxLast = NoCtxCall

\* A navigation (an UltraLink click, or back/forward): the location changes
\* and the popstate handler renders.
Navigate(path) ==
    /\ listening
    /\ microtasks = <<>>
    /\ navs < MaxNav
    /\ pathname' = path
    /\ navs' = navs + 1
    /\ \E w \in {renderRoute(World, routes, path)} : Commit(w)
    /\ UNCHANGED <<matchLast, routes, listening>>
    /\ UNCHANGED <<frozen, written, handles, cellLast, ctxVars>>

\* User code sets a cell: setValue(getValue() + 1).
SetCell(c) ==
    /\ microtasks = <<>>
    /\ \E w \in {cellSet(World, c, Toggle(cells[c].value))} : Commit(w)
    /\ UNCHANGED <<matchLast, routes, pathname, listening, navs>>
    /\ UNCHANGED <<frozen, written, handles, cellLast, ctxVars>>

\* The continuation at the head of the microtask queue runs.
RunMicrotask ==
    /\ microtasks # <<>>
    /\ \E m \in {Head(microtasks)}, w \in {[World EXCEPT !.microtasks = Tail(@)]} :
           \E w1 \in {IF m.kind = "runFn" THEN resolved(w, m)
                       ELSE teardownFrom(w, m.inst, m.pos)} : Commit(w1)
    /\ UNCHANGED <<matchLast, routes, pathname, listening, navs>>
    /\ UNCHANGED <<frozen, written, handles, cellLast, ctxVars>>

\* container._cleanup(): the handler is removed, then currentCleanup is called.
ContainerCleanup ==
    /\ listening
    /\ microtasks = <<>>
    /\ listening' = FALSE
    /\ \E w \in {IF currentCleanup # NoInst THEN nodeCleanup(World, currentCleanup)
                  ELSE World} :
           \E w1 \in {markDisplaced(w)} : Commit(w1)
    /\ UNCHANGED <<matchLast, routes, pathname, navs>>
    /\ UNCHANGED <<frozen, written, handles, cellLast, ctxVars>>

RouterNext ==
    \/ \E path \in Paths : Navigate(path)
    \/ \E c \in CellIds : SetCell(c)
    \/ RunMicrotask
    \/ ContainerCleanup

\* The same, with navigations to the location '/*' as well.
WildNext ==
    \/ RouterNext
    \/ Navigate(WildcardPath)

(***************************************************************************)
(* UltraLink: clicks on links to the paths of the application, with the     *)
(* default viewTransition = false                                           *)
(***************************************************************************)
\* The hrefs of the links, and the ctrlKey and metaKey of a click's MouseEvent.
LinkHrefs == <<PathA, PathB, PathP, PathUser1>>
Clicks == [ctrlKey : BOOLEAN, metaKey : BOOLEAN]

\* UltraLink's navigate: history.pushState({}, '', href), then
\* dispatchEvent(new PopStateEvent('popstate')), which a router that is
\* listening handles by rendering at the new location.
navigate(w, table, href, isListening) ==
    Then(emit(w, Event("pushState", NoInst, "history", IndexOf(LinkHrefs, href), FALSE)),
         LAMBDA w1 :
    Then(emit(w1, Event("popstate", NoInst, "window", 0, FALSE)), LAMBDA w2 :
         IF isListening THEN renderRoute(w2, table, href) ELSE w2))

\* UltraLink's clickHandler(e) at the location `location`: the heap and the
\* location afterwards, and whether the history got an entry.
clickHandlerIgnoresKeys(w, table, location, href, e, isListening) ==
    Then(emit(w, Event("preventDefault", NoInst, "event", 0, FALSE)), LAMBDA w1 :
        IF location = href
        THEN [w |-> w1, pathname |-> location, pushed |-> FALSE]
        ELSE [w |-> navigate(w1, table, href, isListening),
              pathname |-> href, pushed |-> TRUE])
clickHandler(w, table, location, href, e, isListening) ==
    IF e.ctrlKey \/ e.metaKey
    THEN [w |-> w, pathname |-> location, pushed |-> FALSE]
    ELSE Then(emit(w, Event("preventDefault", NoInst, "event", 0, FALSE)), LAMBDA w1 :
            IF location = href
            THEN [w |-> w1, pathname |-> location, pushed |-> FALSE]
            ELSE [w |-> navigate(w1, table, href, isListening),
                  pathname |-> href, pushed |-> TRUE])

\* The user clicks the link to href.
Click(href, e) ==
    /\ microtasks = <<>>
    /\ navs < MaxNav
    /\ \E r \in {clickHandler(
                     emit(World, Event("click", NoInst,
                                       IF e.ctrlKey \/ e.metaKey THEN "modifier" ELSE "plain",
                                       IndexOf(LinkHrefs, href), FALSE)),
                     routes, pathname, href, e, listening)} :
           /\ pathname' = r.pathname
           /\ navs' = IF r.pushed THEN navs + 1 ELSE navs
           /\ Commit(r.w)
    /\ UNCHANGED <<matchLast, routes, listening>>
    /\ UNCHANGED <<frozen, written, handles, cellLast, ctxVars>>

LinkNext ==
    \/ \E href \in Range(LinkHrefs), e \in Clicks : Click(href, e)
    \/ \E c \in CellIds : SetCell(c)
    \/ RunMicrotask
    \/ ContainerCleanup

(***************************************************************************)
(* matchRoute on its own: patterns and paths of a slash followed by one or   *)
(* two parts, a part being empty, a, b, *, :id or :x.                        *)
(***************************************************************************)
MatchParts == {EmptyPart, Lit("a"), Lit("b"), Lit("*"), Param("id"), Param("x")}
MatchPaths ==
    {<<EmptyPart, p>> : p \in MatchParts}
        \cup {<<EmptyPart, p, q>> : p \in MatchParts, q \in MatchParts}

\* No route has been matched.
MatchInit ==
    /\ cells = IdleCells
    /\ frozen = {}
    /\ written = {}
    /\ handles = {}
    /\ cellLast = NoCall
    /\ owner = NoNode
    /\ assigned = FALSE
    /\ ctxValue = Str("light")
    /\ ctxSubscribers = <<>>
    /\ ctxHandles = {}
    /\ parent = Document
    /\ ctxLast = NoCtxCall
    /\ routes = <<>>
    /\ pathname = RootPath
    /\ listening = FALSE
    /\ currentCleanup = NoInst
    /\ content = NoInst
    /\ insts = <<>>
    /\ effects = <<>>
    /\ microtasks = <<>>
    /\ frames = <<>>
    /\ navs = 0
    /\ routerLast = <<>>
    /\ matchLast = NoMatch

\* matchRoute(route.path, window.location.pathname) for a table of one route.
MatchRoute(routePath, currentPath) ==
    /\ routes' = <<Route(routePath, ViewP)>>
    /\ pathname' = currentPath
    /\ matchLast' = matchRoute(routePath, currentPath)
    /\ UNCHANGED <<listening, currentCleanup, content, insts, effects, microtasks,
                   frames, navs, routerLast>>
    /\ UNCHANGED <<cellVars, ctxVars>>

MatchNext == \E routePath \in MatchPaths, currentPath \in MatchPaths :
                 MatchRoute(routePath, currentPath)

(***************************************************************************)
(* Component trees and effects that user code builds and tears down itself  *)
(***************************************************************************)
Child(how, view) == [how |-> how, view |-> view]
ViewL == [View("L") EXCEPT !.trigger = <<"s1">>, !.cleanup = <<"return">>]
ViewM == [View("M") EXCEPT !.children = <<Child("node", ViewL)>>,
                           !.cleanup = <<"return", "throw", "return">>]
ViewR == [View("R") EXCEPT !.children = <<Child("node", ViewM), Child("node", ViewP)>>,
                           !.trigger = <<"s2">>]
ViewF == [View("F") EXCEPT !.children = <<Child("fragment", ViewL)>>]
ViewD == [View("D") EXCEPT !.children = <<Child("node", ViewL), Child("again", ViewL)>>]
ViewE == [View("E") EXCEPT !.effect = <<"s1", "s2">>, !.teardown = TRUE]
ViewK == [View("K") EXCEPT !.children = <<Child("link", ViewL), Child("node", ViewL)>>]
TreeViews == {ViewR, ViewF, ViewD, ViewE, ViewA, ViewK}

\* Trees a behaviour builds, and continuations it lets queue up.
MaxTrees == 1
MaxPending == 2
MaxFrames == 3

\* Nothing has been built.
TreeInit ==
    /\ cells = IdleCells
    /\ frozen = {}
    /\ written = {}
    /\ handles = {}
    /\ cellLast = NoCall
    /\ owner = NoNode
    /\ assigned = FALSE
    /\ ctxValue = Str("light")
    /\ ctxSubscribers = <<>>
    /\ ctxHandles = {}
    /\ parent = Document
    /\ ctxLast = NoCtxCall
    /\ routes = <<>>
    /\ pathname = RootPath
    /\ listening = FALSE
    /\ currentCleanup = NoInst
    /\ content = NoInst
    /\ insts = <<>>
    /\ effects = <<>>
    /\ microtasks = <<>>
    /\ frames = <<>>
    /\ navs = 0
    /\ routerLast = <<>>
    /\ matchLast = NoMatch

\* User code builds the tree of a view.
TreeBuild(view) ==
    /\ navs < MaxTrees
    /\ Len(microtasks) < MaxPending
    /\ Len(frames) < MaxFrames
    /\ navs' = navs + 1
    /\ \E w \in {component(emit(World, Event("build", Len(insts), view.name, 0, FALSE)),
                            0, view)} : Commit(w)
    /\ UNCHANGED <<matchLast, routes, pathname, listening>>
    /\ UNCHANGED <<frozen, written, handles, cellLast, ctxVars>>

\* User code sets a cell: setValue(getValue() + 1).
TreeSet(c) ==
    /\ Len(microtasks) < MaxPending
    /\ Len(frames) < MaxFrames
    /\ \E w \in {cellSet(emit(World, Event("set", NoInst, c, 0, FALSE)),
                          c, Toggle(cells[c].value))} : Commit(w)
    /\ UNCHANGED <<matchLast, routes, pathname, listening, navs>>
    /\ UNCHANGED <<frozen, written, handles, cellLast, ctxVars>>

\* User code calls node._cleanup() of a node it built.
TreeCleanup(inst) ==
    /\ insts[inst].hasCleanup
    /\ insts[inst].cleanups = 0
    /\ \E w \in {nodeCleanup(emit(World, Event("call_cleanup", inst, "node", 0, FALSE)),
                              inst)} : Commit(w)
    /\ UNCHANGED <<matchLast, routes, pathname, listening, navs>>
    /\ UNCHANGED <<frozen, written, handles, cellLast, ctxVars>>

\* User code calls the combined teardown of an effect it created.
TreeTeardown(inst) ==
    /\ effects[inst].unsubscribers # <<>>
    /\ ~effects[inst].torn
    /\ Len(microtasks) < MaxPending
    /\ \E w \in {effectTeardown(World, inst)} : Commit(w)
    /\ UNCHANGED <<matchLast, routes, pathname, listening, navs>>
    /\ UNCHANGED <<frozen, written, handles, cellLast, ctxVars>>

TreeNext ==
    \/ \E view \in TreeViews : TreeBuild(view)
    \/ \E c \in CellIds : TreeSet(c)
    \/ \E inst \in 1..Len(insts) : TreeCleanup(inst)
    \/ \E inst \in 1..Len(insts) : TreeTeardown(inst)
    \/ RunMicrotask

(***************************************************************************)
(* Effects whose action is asynchronous: the promise of a run resolves at   *)
(* any time after the run started, whatever later runs have done by then    *)
(***************************************************************************)
ViewC == [View("C") EXCEPT !.effect = <<"s1">>, !.teardown = TRUE, !.when = "s1"]
ViewG == [View("G") EXCEPT !.effect = <<"s1", "s2">>, !.fails = "throw",
                           !.trigger = <<"s1">>]
ViewJ == [View("J") EXCEPT !.effect = <<"s1">>, !.fails = "reject", !.trigger = <<"s1">>]
EffectViews == {ViewE, ViewC, ViewG, ViewJ}

\* The promise of the run whose continuation is at position i resolves.
ResolveRun(i) ==
    /\ microtasks[i].kind = "runFn"
    /\ \E m \in {microtasks[i]} :
           \E w \in {resolved(
                        emit([World EXCEPT !.microtasks =
                                  SubSeq(@, 1, i - 1) \o SubSeq(@, i + 1, Len(@))],
                             Event("resolve", m.inst, "runFn", m.pos,
                                   effects[m.inst].captured > m.pos)),
                        m)} : Commit(w)
    /\ UNCHANGED <<matchLast, routes, pathname, listening, navs>>
    /\ UNCHANGED <<frozen, written, handles, cellLast, ctxVars>>

EffectNext ==
    \/ \E view \in EffectViews : TreeBuild(view)
    \/ \E c \in CellIds : TreeSet(c)
    \/ \E inst \in 1..Len(insts) : TreeTeardown(inst)
    \/ \E i \in 1..Len(microtasks) : ResolveRun(i)
    \/ (microtasks # <<>> /\ Head(microtasks).kind = "teardown" /\ RunMicrotask)

(***************************************************************************)
(* UltraActivity nodes that user code builds, notifies and cleans up       *)
(***************************************************************************)
ViewV == [View("V") EXCEPT !.type = "display", !.mode = <<"s1">>, !.trigger = <<"s1">>,
                           !.children = <<Child("node", ViewL)>>]
ViewH == [View("H") EXCEPT !.type = "visibility", !.mode = <<"s1", "s2">>]
ViewO == [View("O") EXCEPT !.type = "opacity", !.mode = <<"s2">>]
ActivityViews == {ViewV, ViewH, ViewO}

ActivityNext ==
    \/ \E view \in ActivityViews : TreeBuild(view)
    \/ \E c \in CellIds : TreeSet(c)
    \/ \E inst \in 1..Len(insts) : TreeCleanup(inst)

(***************************************************************************)
(* Nodes with deferred triggers and onMount functions, and the paint frames *)
(***************************************************************************)
ViewS == [View("S") EXCEPT !.trigger = <<"s1", "s1", "s2">>, !.defer = {1, 3},
                           !.onMount = <<"return", "throw", "return">>]
ViewU == [View("U") EXCEPT !.type = "display", !.mode = <<"s2">>,
                           !.trigger = <<"s2">>, !.defer = {1},
                           !.onMount = <<"return">>]
ViewN == [View("N") EXCEPT !.eventHandler = <<"click", "input">>,
                           !.children = <<Child("node", ViewL), Child("node", ViewP)>>,
                           !.trigger = <<"s1", "s2">>,
                           !.cleanup = <<"return", "return">>]
ViewQ == [View("Q") EXCEPT !.type = "visibility", !.mode = <<"s1", "s2">>,
                           !.eventHandler = <<"click">>,
                           !.children = <<Child("node", ViewL)>>,
                           !.trigger = <<"s1">>, !.cleanup = <<"return">>]
FrameViews == {ViewS, ViewU, ViewN, ViewQ}

\* The callbacks of a frame are run in the order they were requested.
RECURSIVE runFramesOfLiveNodes(_, _)
runFramesOfLiveNodes(w, callbacks) ==
    IF callbacks = <<>> THEN w
    ELSE LET f == Head(callbacks)
         IN  Then(IF w.insts[f.inst].cleanups > 0 THEN w
                  ELSE IF f.kind = "trigger"
                  THEN emit(w, Event("triggerFunction", f.inst, "deferred", f.idx, FALSE))
                  ELSE Then(emit(w, Event("onMount", f.inst, f.how, f.idx, FALSE)),
                            LAMBDA w1 : IF f.how = "throw"
                                        THEN emit(w1, Event("error", f.inst, "onMount",
                                                            f.idx, FALSE))
                                        ELSE w1),
                  LAMBDA w2 : runFramesOfLiveNodes(w2, Tail(callbacks)))
RECURSIVE runFramesUncaught(_, _)
runFramesUncaught(w, callbacks) ==
    IF callbacks = <<>> THEN w
    ELSE LET f == Head(callbacks)
             cleaned == w.insts[f.inst].cleanups > 0
         IN  IF f.kind = "trigger"
             THEN runFramesUncaught(
                      emit(w, Event("triggerFunction", f.inst, "deferred", f.idx, cleaned)),
                      Tail(callbacks))
             ELSE IF f.how = "throw"
             THEN emit(w, Event("onMount", f.inst, f.how, f.idx, cleaned))
             ELSE runFramesUncaught(
                      emit(w, Event("onMount", f.inst, f.how, f.idx, cleaned)),
                      Tail(callbacks))
RECURSIVE runFrames(_, _)
runFrames(w, callbacks) ==
    IF callbacks = <<>> THEN w
    ELSE LET f == Head(callbacks)
             cleaned == w.insts[f.inst].cleanups > 0
         IN  Then(IF f.kind = "trigger"
                  THEN emit(w, Event("triggerFunction", f.inst, "deferred", f.idx, cleaned))
                  ELSE \* try { fn(node) } catch (error) { console.error(...) }
                       Then(emit(w, Event("onMount", f.inst, f.how, f.idx, cleaned)),
                            LAMBDA w1 : IF f.how = "throw"
                                        THEN emit(w1, Event("error", f.inst, "onMount",
                                                            f.idx, FALSE))
                                        ELSE w1),
                  LAMBDA w2 : runFrames(w2, Tail(callbacks)))

\* The browser paints: the callbacks requested since the last frame run.
AnimationFrame ==
    /\ frames # <<>>
    /\ microtasks = <<>>
    /\ \E w \in {runFrames([emit(World, Event("frame", NoInst, "window", 0, FALSE))
                                EXCEPT !.frames = <<>>], frames)} : Commit(w)
    /\ UNCHANGED <<matchLast, routes, pathname, listening, navs>>
    /\ UNCHANGED <<frozen, written, handles, cellLast, ctxVars>>

FrameNext ==
    \/ \E view \in FrameViews : TreeBuild(view)
    \/ \E c \in CellIds : TreeSet(c)
    \/ \E inst \in 1..Len(insts) : TreeCleanup(inst)
    \/ AnimationFrame

(***************************************************************************)
(* Built nodes that user code hands to the builders once more              *)
(***************************************************************************)
WrappedViews == {ViewA, ViewV}
WrapViews == {ViewL, ViewH}

\* User code calls a builder with a node it built before as `component`.
TreeWrap(inst, view) ==
    /\ insts[inst].built = 1
    /\ insts[inst].cleanups = 0
    /\ view.type # "none" => insts[inst].type = "none"
    /\ \E w \in {rebuild(emit(World, Event("wrap", inst, view.name, 0, FALSE)),
                          inst, view)} : Commit(w)
    /\ UNCHANGED <<matchLast, routes, pathname, listening, navs>>
    /\ UNCHANGED <<frozen, written, handles, cellLast, ctxVars>>

WrapNext ==
    \/ \E view \in WrappedViews : TreeBuild(view)
    \/ \E inst \in 1..Len(insts), view \in WrapViews : TreeWrap(inst, view)
    \/ \E c \in CellIds : TreeSet(c)
    \/ \E inst \in 1..Len(insts) : TreeCleanup(inst)
    \/ RunMicrotask

(***************************************************************************)
(* ultraCompState: a store of two state fields and three methods           *)
(***************************************************************************)
\* A function as the value of a key.
Fun(name) == [t |-> "function", n |-> 0, s |-> name, ref |-> 0]

\* The object given to ultraCompState, and Object.keys of it.
\*   increment: (state) => state.count.set(state.count.get() + 1)
\*   rename:    (state, to) => { state.name.set(to); return state.name.get() }
\*   reset:     (state) => { state.count.set(0); return state.rename('John') }
initialComp == [increment |-> Fun("increment"), count |-> Num(0), name |-> Str("John"),
                rename |-> Fun("rename"), reset |-> Fun("reset")]
CompKeys == <<"increment", "count", "name", "rename", "reset">>

\* The cells in the order ultraState creates them.
CellSeq == <<"s1", "s2">>

\* ultraCompState(initialComp): a key whose value is a function becomes a
\* method bound to comp, any other key gets the get, set and subscribe of an
\* ultraState of its own.
ultraCompStateShared(initial, keys) ==
    LET stateKeys == SelectSeq(keys, LAMBDA key : initial[key].t # "function")
    IN  [comp |-> [key \in Range(keys) |->
                      IF initial[key].t = "function"
                      THEN [method |-> TRUE, cell |-> "none"]
                      ELSE [method |-> FALSE, cell |-> CellSeq[1]]],
         cells |-> [c \in CellIds |->
                      IF IndexOf(CellSeq, c) <= Len(stateKeys)
                      THEN ultraState(initial[stateKeys[IndexOf(CellSeq, c)]])
                      ELSE ultraState(Num(0))]]
ultraCompState(initial, keys) ==
    LET stateKeys == SelectSeq(keys, LAMBDA key : initial[key].t # "function")
    IN  [comp |-> [key \in Range(keys) |->
                      IF initial[key].t = "function"
                      THEN [method |-> TRUE, cell |-> "none"]
                      ELSE [method |-> FALSE, cell |-> CellSeq[IndexOf(stateKeys, key)]]],
         cells |-> [c \in CellIds |->
                      IF IndexOf(CellSeq, c) <= Len(stateKeys)
                      THEN ultraState(initial[stateKeys[IndexOf(CellSeq, c)]])
                      ELSE ultraState(Num(0))]]

\* const store = ultraCompState({increment: ..., count: 0, name: 'John', ...})
store == ultraCompState(initialComp, CompKeys)
StateFields == {key \in Range(CompKeys) : ~store.comp[key].method}
Methods == {key \in Range(CompKeys) : store.comp[key].method}

\* What a function returns that returns nothing.
Undefined == [t |-> "undefined", n |-> 0, s |-> "", ref |-> 0]

\* comp[key].get() and comp[key].set(v) inside a method: p is the cells as
\* they are, the subscriber calls made so far and the value to return.
fieldGet(p, comp, key) == p.cells[comp[key].cell].value
fieldSet(p, comp, key, v) ==
    Then(setValue(p.cells[comp[key].cell], v), LAMBDA r :
        [p EXCEPT !.cells[comp[key].cell] = r.cell, !.calls = @ \o r.calls])

\* The functions of initialComp, applied to the store and the arguments.
RECURSIVE callMethod(_, _, _)
apply(fun, comp, args, p) ==
    IF fun.s = "increment"
    THEN [fieldSet(p, comp, "count", Toggle(fieldGet(p, comp, "count")))
             EXCEPT !.result = Undefined]
    ELSE IF fun.s = "rename"
    THEN Then(fieldSet(p, comp, "name", args[1]), LAMBDA q :
             [q EXCEPT !.result = fieldGet(q, comp, "name")])
    ELSE Then(fieldSet(p, comp, "count", Num(0)), LAMBDA q :
             callMethod("rename", <<Str("John")>>, q))

\* comp[key] = (...args) => initialComp[key](comp, ...args): comp is the
\* store as it is when the method is called, its cells the live ones.
callMethodCaptured(key, args, p) ==
    apply(initialComp[key], store.comp, args, [p EXCEPT !.cells = store.cells])
callMethod(key, args, p) ==
    apply(initialComp[key], store.comp, args, p)
CompValues == {Num(0), Num(1), Str("John")}
CompArgs == {<<>>, <<Str("Ann")>>, <<Str("John")>>}

\* ultraCompState has returned; nothing else is in use.
CompInit ==
    /\ cells = store.cells
    /\ frozen = {}
    /\ written = {}
    /\ handles = {}
    /\ cellLast = NoCall
    /\ owner = NoNode
    /\ assigned = FALSE
    /\ ctxValue = Str("light")
    /\ ctxSubscribers = <<>>
    /\ ctxHandles = {}
    /\ parent = Document
    /\ ctxLast = NoCtxCall
    /\ routes = <<>>
    /\ pathname = RootPath
    /\ listening = FALSE
    /\ currentCleanup = NoInst
    /\ content = NoInst
    /\ insts = <<>>
    /\ effects = <<>>
    /\ microtasks = <<>>
    /\ frames = <<>>
    /\ navs = 0
    /\ routerLast = <<>>
    /\ matchLast = NoMatch

\* store[key].set(v)
CompSet(key, v) == SetValue(store.comp[key].cell, v)

\* store[key].subscribe(fn)
CompSubscribe(key, fn) == Subscribe(store.comp[key].cell, fn)

\* store[key](...args), called by user code; a method that takes an
\* argument is called with one.
CompCall(key, args) ==
    /\ (key = "rename") = (args # <<>>)
    /\ \E p \in {callMethod(key, args, [cells |-> cells, calls |-> <<>>,
                                         result |-> Undefined])} :
           /\ cells' = p.cells
           /\ cellLast' = [NoCall EXCEPT !.op = "method", !.key = key,
                              !.arg = IF args = <<>> THEN Undefined ELSE args[1],
                              !.calls = p.calls, !.result = p.result,
                              !.errors = Cardinality({i \in 1..Len(p.calls) :
                                                         Throws(p.calls[i].fn)})]
    /\ UNCHANGED <<frozen, written, handles, ctxVars, routerVars>>

CompNext ==
    \/ \E key \in StateFields, v \in CompValues : CompSet(key, v)
    \/ \E key \in StateFields, fn \in UserFns : CompSubscribe(key, fn)
    \/ \E h \in handles : Unsubscribe(h)
    \/ \E key \in Methods, args \in CompArgs : CompCall(key, args)

(***************************************************************************)
(* Specifications                                                          *)
(***************************************************************************)
\* ultraState alone.
SpecCell ==
    /\ CellInit
    /\ [][CellNext]_vars

\* ultraState with a subscriber that unsubscribes another during a pass.
SpecPass ==
    /\ CellInit
    /\ [][PassNext]_vars

\* ultraState with a subscriber that sets the cell during a pass.
SpecNested ==
    /\ CellInit
    /\ [][NestNext]_vars

\* UltraContext over a DOM tree that user code rearranges.
SpecCtx ==
    /\ CtxInit
    /\ [][CtxNext]_vars

\* UltraContext with subscribers whose candidates are known.
SpecScope ==
    /\ CtxInit
    /\ [][ScopeNext]_vars

\* A cell and a context without owner, with a subscriber that throws.
NotifyNext ==
    \/ \E v \in {Num(0), Num(1)} : SetValue("s1", v)
    \/ \E fn \in UserFns : Subscribe("s1", fn)
    \/ \E v \in CtxValues : CtxSet(v, NoNode)
    \/ \E fn \in UserFns : CtxSubscribe(fn, NoNode)
SpecNotify ==
    /\ CtxInit
    /\ [][NotifyNext]_vars

\* An UltraRouter and the UltraLinks to its paths.
SpecLink ==
    /\ RouterInit
    /\ [][LinkNext]_vars

\* UltraActivity nodes in the hands of user code.
SpecActivity ==
    /\ TreeInit
    /\ [][ActivityNext]_vars

\* A store made by ultraCompState in the hands of user code.
SpecComp ==
    /\ CompInit
    /\ [][CompNext]_vars

\* matchRoute applied to patterns and paths.
SpecMatch ==
    /\ MatchInit
    /\ [][MatchNext]_vars

\* UltraComponent trees and ultraEffects in the hands of user code.
SpecTree ==
    /\ TreeInit
    /\ [][TreeNext]_vars

\* An UltraRouter whose views subscribe triggers and effects to two cells.
SpecEffect ==
    /\ TreeInit
    /\ [][EffectNext]_vars

SpecWrap ==
    /\ TreeInit
    /\ [][WrapNext]_vars

SpecFrame ==
    /\ TreeInit
    /\ [][FrameNext]_vars

SpecRouter ==
    /\ RouterInit
    /\ [][RouterNext]_vars

SpecWild ==
    /\ RouterInit
    /\ [][WildNext]_vars

(***************************************************************************)
(* Properties of ultraState                                                *)
(***************************************************************************)
\* How often fn was called in a notification pass.
TimesCalled(calls, fn) == Cardinality({i \in 1..Len(calls) : calls[i].fn = fn})

\* Every subscriber of the sequence subs was called exactly once, with value.
EachOnceWith(calls, subs, value) ==
    /\ \A fn \in Range(subs) : TimesCalled(calls, fn) = 1
    /\ \A i \in 1..Len(calls) : calls[i].fn \in Range(subs) /\ calls[i].arg = value

\* C1: for a cell holding a primitive x, set(x) with get() === x leaves the
\* value unchanged and calls no subscriber; set(y) with y !== x calls each
\* registered subscriber exactly once with y.
C1_PrimitiveNotifyOnChange ==
    [][(cellLast'.op = "set" /\ IsPrimitive(cells[cellLast'.cell].value)) =>
        LET c == cellLast'.cell
            x == cells[c].value
            y == cellLast'.arg
        IN  IF StrictEq(x, y)
            THEN cells'[c].value = x /\ cellLast'.calls = <<>>
            ELSE EachOnceWith(cellLast'.calls, cells[c].subscribers, y)]_vars

\* C2: for a cell whose current value is an object, every set call notifies
\* each registered subscriber (exactly once), also when the argument is
\* structurally equal to the current value or the very same reference.
C2_ObjectAlwaysNotifies ==
    [][(cellLast'.op = "set" /\ cells[cellLast'.cell].value.t = "object") =>
        /\ ~cellLast'.threw
        /\ \A fn \in Range(cells[cellLast'.cell].subscribers) :
               TimesCalled(cellLast'.calls, fn) = 1]_vars

\* C2 witness: set(o) on a cell that held that very reference o called both
\* subscribers.
C2_Witness ==
    /\ cellLast.op = "set"
    /\ cellLast.before = Obj(1)
    /\ cellLast.arg = Obj(1)
    /\ Len(cellLast.calls) = 2

C15_SynchronousNotify ==
    [][(/\ cellLast'.op = "set"
        /\ ~(IsPrimitive(cells[cellLast'.cell].value)
              /\ cells[cellLast'.cell].value = cellLast'.arg)) =>
        /\ \A fn \in Range(cells[cellLast'.cell].subscribers) :
               \E i \in 1..Len(cellLast'.calls) :
                   cellLast'.calls[i].fn = fn /\ cellLast'.calls[i].arg = cellLast'.arg
        /\ cells'[cellLast'.cell].value = cellLast'.arg]_vars

\* C16: calling the closure subscribe(fn) returned leaves fn out of the
\* subscribers, and calling a closure that has been called before changes
\* nothing in the subscribers (and does not throw).
C16_HandleIdempotent ==
    [][cellLast'.op = "unsubscribe" =>
        /\ ~cellLast'.threw
        /\ cellLast'.fn \notin Range(cells'[cellLast'.cell].subscribers)
        /\ cellLast'.spent =>
              cells'[cellLast'.cell].subscribers = cells[cellLast'.cell].subscribers]_vars

\* C26: a set() that notifies calls each function that was subscribed when
\* it was called exactly once and no other function, whatever the
\* subscribers subscribe or unsubscribe while they are being called.
C26_PassOverSnapshot ==
    [][(cellLast'.op = "set"
        /\ ~setValueReturns(cells[cellLast'.cell].value, cellLast'.arg)) =>
            /\ \A fn \in Range(cells[cellLast'.cell].subscribers) :
                   TimesCalled(cellLast'.calls, fn) = 1
            /\ \A i \in 1..Len(cellLast'.calls) :
                   cellLast'.calls[i].fn \in Range(cells[cellLast'.cell].subscribers)]_vars

\* C27: in a set(v) that notifies, every subscriber is called with what the
\* cell holds at that call: v up to the first call of a subscriber that
\* itself calls set(1), and 1 from then on, for the subscribers the outer
\* pass still has to call too; when set(v) returns the cell holds the
\* argument of the last set issued (1 if such a subscriber was called,
\* else v).
C27_ArgumentIsCurrentValue ==
    [][(cellLast'.op = "set"
        /\ ~setValueReturns(cells[cellLast'.cell].value, cellLast'.arg)) =>
            LET calls == cellLast'.calls
                setters == {i \in 1..Len(calls) : Acts(calls[i].fn) = "set"}
                first == IF setters = {} THEN Len(calls) + 1
                         ELSE CHOOSE i \in setters : \A j \in setters : i <= j
            IN  /\ \A i \in 1..Len(calls) :
                       calls[i].arg = IF i <= first THEN cellLast'.arg ELSE Num(1)
                /\ cells'[cellLast'.cell].value =
                       IF setters = {} THEN cellLast'.arg ELSE Num(1)]_vars

\* set(obj) with f6 subscribed before f1: f6 got obj and set 1, whose pass
\* called f6 and f1 with 1; then the outer pass called f1, with 1.
C27_Witness ==
    /\ cellLast.op = "set"
    /\ cellLast.arg = Obj(1)
    /\ cellLast.calls = <<[fn |-> UserFn(6), arg |-> Obj(1)],
                          [fn |-> UserFn(6), arg |-> Num(1)],
                          [fn |-> UserFn(1), arg |-> Num(1)],
                          [fn |-> UserFn(1), arg |-> Num(1)]>>
    /\ cells["s1"].value = Num(1)

\* C22: every object reachable from the value a cell holds is frozen, from
\* construction on and after every set; an assignment to a property of such
\* an object, at whatever depth, throws, and no object has been changed.
C22_ObjectStateImmutable ==
    /\ \A c \in CellIds : reach(cells[c].value) \subseteq frozen
    /\ cellLast.op = "assign" => cellLast.threw
    /\ written = {}

\* After set() of an object, an assignment to the object nested two levels
\* below the value threw.
C22_Witness ==
    /\ cellLast.op = "assign"
    /\ cellLast.before = Obj(2)
    /\ cellLast.arg = Obj(5)
    /\ cellLast.threw

(***************************************************************************)
(* Properties of UltraContext                                              *)
(***************************************************************************)
\* The nodes of the subtrees rooted in S, found from the roots downwards.
RECURSIVE SubtreeOf(_, _)
SubtreeOf(par, S) ==
    LET T == S \cup {n \in Nodes : par[n] \in S}
    IN  IF T = S THEN S ELSE SubtreeOf(par, T)

\* The reachability rule as the specification words it.
Reachable(isAssigned, own, par, candidate) ==
    \/ ~isAssigned
    \/ candidate # NoNode /\ candidate \in SubtreeOf(par, {own})

\* C3: an operation is treated as reachable iff no owner has been assigned,
\* or a candidate is supplied and the owner is the candidate or one of its
\* ancestors; with an owner, a call without a candidate is never reachable.
C3_ReachabilityRule ==
    /\ \A c \in Candidates :
           canReach(owner, parent, c) <=> Reachable(assigned, owner, parent, c)
    /\ assigned => ~canReach(owner, parent, NoNode)
    /\ ctxLast.op = "subscribe" =>
           (~ctxLast.noop <=> Reachable(assigned, owner, parent, ctxLast.candidate))
    /\ ctxLast.op = "get" /\ ~Reachable(assigned, owner, parent, ctxLast.candidate) =>
           ctxLast.result = Sentinel

\* C3 witness: a subscribe from a grandchild of the owner was accepted.
C3_Witness ==
    /\ owner = "container"
    /\ parent["child"] = "container"
    /\ parent["outsider"] = "child"
    /\ ctxLast.op = "subscribe"
    /\ ctxLast.candidate = "outsider"
    /\ ~ctxLast.noop

\* C4: own() on a context that has an owner throws and changes nothing: the
\* owner, the value, the subscribers and every candidate's reachability stay.
C4_SecondOwnThrows ==
    [][(assigned /\ ctxLast'.op = "own") =>
        /\ ctxLast'.threw
        /\ owner' = owner /\ assigned' = assigned
        /\ ctxValue' = ctxValue
        /\ ctxSubscribers' = ctxSubscribers
        /\ \A c \in Candidates :
               canReach(owner', parent', c) <=> canReach(owner, parent, c)]_vars

\* C4 witness: own(other node) threw on an owned context with a subscriber.
C4_Witness ==
    /\ ctxLast.op = "own"
    /\ ctxLast.threw
    /\ ctxLast.candidate # owner
    /\ ctxSubscribers # <<>>

\* C5: after own(O), subscribe with an unreachable candidate registers
\* nothing (a set only ever calls registered subscribers, so the callback is
\* not called), and the closure it returns removes no subscriber.
C5_UnreachableSubscribe ==
    [][/\ (assigned /\ ctxLast'.op = "subscribe"
             /\ ~Reachable(assigned, owner, parent, ctxLast'.candidate)) =>
               /\ ctxSubscribers' = ctxSubscribers
               /\ ctxLast'.noop
               /\ ~ctxLast'.threw
       /\ ctxLast'.op = "set" =>
               \A i \in 1..Len(ctxLast'.calls) :
                   ctxLast'.calls[i].fn \in Range(ctxSubscribers)
       /\ (ctxLast'.op = "unsubscribe" /\ ctxLast'.noop) =>
               ctxSubscribers' = ctxSubscribers /\ ~ctxLast'.threw]_vars

\* C5 witness: a subscribe of a function that is not registered, from a node
\* outside the owner's subtree, while another subscriber is registered.
C5_Witness ==
    /\ assigned
    /\ ctxLast.op = "subscribe"
    /\ ctxLast.noop
    /\ ctxLast.candidate # NoNode
    /\ ctxSubscribers # <<>>
    /\ ctxLast.fn \notin Range(ctxSubscribers)

\* C6: after own(O), set with an unreachable candidate does not throw,
\* leaves the value every reachable get returns unchanged, and notifies nobody.
C6_UnreachableSetNoOp ==
    [][(assigned /\ ctxLast'.op = "set"
          /\ ~Reachable(assigned, owner, parent, ctxLast'.candidate)) =>
        /\ ~ctxLast'.threw
        /\ ctxValue' = ctxValue
        /\ ctxLast'.calls = <<>>
        /\ \A c \in Candidates :
               getValue(owner', parent', ctxValue', c) = getValue(owner, parent, ctxValue, c)]_vars

\* C6 witness: an unreachable set of a new value while a subscriber is registered.
C6_Witness ==
    /\ assigned
    /\ ctxLast.op = "set"
    /\ ~Reachable(assigned, owner, parent, ctxLast.candidate)
    /\ ctxLast.arg # ctxValue
    /\ ctxSubscribers # <<>>

\* C7: after own(O), get with an unreachable candidate returns the sentinel
\* without throwing and leaves the value unchanged; the sentinel differs from
\* every value the context holds: a reachable get never returns it.
C7_SentinelDistinct ==
    [][ctxLast'.op = "get" =>
        /\ ~ctxLast'.threw
        /\ ctxValue' = ctxValue
        /\ (assigned /\ ~Reachable(assigned, owner, parent, ctxLast'.candidate)) =>
               ctxLast'.result = Sentinel
        /\ Reachable(assigned, owner, parent, ctxLast'.candidate) =>
               ctxLast'.result # Sentinel]_vars

\* C24: once a context has an owner, each get, set and subscribe is decided
\* by where its candidate is in the containment tree at that call: from a
\* node that is then in the owner's subtree get returns the value, set
\* stores its argument and subscribe registers; from a node that is then
\* outside of it get returns the sentinel, set changes nothing and calls
\* nobody, subscribe registers nothing and returns a no-op.
C24_ReachabilityIsLive ==
    [][(assigned /\ ctxLast'.op \in {"get", "set", "subscribe"}) =>
        LET inside == /\ ctxLast'.candidate # NoNode
                      /\ ctxLast'.candidate \in SubtreeOf(parent, {owner})
        IN  /\ ctxLast'.op = "get" =>
                  ctxLast'.result = IF inside THEN ctxValue ELSE Sentinel
            /\ ctxLast'.op = "set" =>
                  IF inside THEN ctxValue' = ctxLast'.arg
                  ELSE ctxValue' = ctxValue /\ ctxLast'.calls = <<>>
            /\ ctxLast'.op = "subscribe" =>
                  /\ ctxLast'.noop = ~inside
                  /\ ctxSubscribers' = IF inside THEN SetAdd(ctxSubscribers, ctxLast'.fn)
                                        ELSE ctxSubscribers]_vars

\* The child that started inside the owner has been moved out and the
\* outsider moved in; a get from the outsider returned the value.
C24_Witness ==
    /\ owner = "container"
    /\ parent["child"] = NoNode
    /\ parent["outsider"] = "container"
    /\ ctxLast.op = "get"
    /\ ctxLast.candidate = "outsider"
    /\ ctxLast.result = ctxValue
    /\ ctxValue # Sentinel

\* C28: a subscribe that is reachable when it is made registers its
\* function; own() and moves of nodes leave the subscribers as they are; and
\* every set that takes effect calls every registered function once with
\* the new value, wherever the candidate it was subscribed with is by then.
C28_SubscribersOutliveReach ==
    [][/\ (ctxLast'.op = "subscribe" /\ canReach(owner, parent, ctxLast'.candidate)) =>
              ctxLast'.fn \in Range(ctxSubscribers')
       /\ ctxLast'.op \in {"own", "move", "set"} => ctxSubscribers' = ctxSubscribers
       /\ (/\ ctxLast'.op = "set"
           /\ canReach(owner, parent, ctxLast'.candidate)
           /\ ~(IsPrimitive(ctxValue) /\ ctxValue = ctxLast'.arg)) =>
              EachOnceWith(ctxLast'.calls, ctxSubscribers, ctxLast'.arg)]_vars

\* A set from the owner called f1, subscribed from the node child, and f4,
\* subscribed without a candidate, although child is outside the owner's
\* subtree by now and a call without a candidate is unreachable.
C28_Witness ==
    /\ assigned
    /\ ctxLast.op = "set"
    /\ ctxLast.candidate = owner
    /\ ~canReach(owner, parent, "child")
    /\ ~canReach(owner, parent, NoNode)
    /\ \E i, j \in 1..Len(ctxLast.calls) :
           ctxLast.calls[i].fn = UserFn(1) /\ ctxLast.calls[j].fn = UserFn(4)

(***************************************************************************)
(* Properties of UltraRouter                                               *)
(***************************************************************************)
\* C8: after the Router has navigated away from a view, no subscription that
\* view's build created (trigger, effect) has its callback called for a later
\* state change, changes made while the next view is built included.
C8_NoCallAfterNavigation ==
    \A i \in 1..Len(routerLast) :
        routerLast[i].type = "call" => ~routerLast[i].stale

\* C9: on a navigation with an outgoing view that has an aggregate cleanup,
\* that cleanup is called before any route's component factory.
C9_CleanupBeforeFactories ==
    (/\ routerLast # <<>>
     /\ routerLast[1].type = "render"
     /\ routerLast[1].inst # NoInst
     /\ insts[routerLast[1].inst].hasCleanup) =>
        \E k \in 1..Len(routerLast) :
            /\ routerLast[k].type = "cleanup"
            /\ routerLast[k].inst = routerLast[1].inst
            /\ \A j \in 1..Len(routerLast) : routerLast[j].type = "factory" => k < j

\* C9 witness: a navigation away from a view with a cleanup that ran two
\* factories (a matching route and the wildcard).
C9_Witness ==
    /\ navs > 0
    /\ routerLast # <<>>
    /\ routerLast[1].type = "render"
    /\ routerLast[1].inst # NoInst
    /\ insts[routerLast[1].inst].hasCleanup
    /\ Cardinality({j \in 1..Len(routerLast) : routerLast[j].type = "factory"}) = 2

\* C10: the aggregate cleanup of every view the Router rendered is called
\* exactly once, when the view is displaced (by the next render or by the
\* container's teardown), and never again.
C10_CleanupExactlyOnce ==
    \A i \in 1..Len(insts) :
        insts[i].hasCleanup =>
            insts[i].cleanups = (IF insts[i].displaced THEN 1 ELSE 0)

\* C32: in a render whose outgoing view has a cleanup that throws, or a
\* cleanup with an entry that throws, each exception is followed by its
\* report (by the aggregate cleanup for an entry, by the router for the
\* cleanup itself), and the render goes on: the factories of the routes
\* matching the location run after the cleanup, and the container holds a
\* node built in this render by a route matching the location whenever such
\* a route's view yields a node.
C32_CleanupErrorsDoNotStopRender ==
    [][LET last == routerLast'
           thrownAt == {p \in 1..Len(last) :
                           \/ last[p].type = "entry" /\ last[p].stale
                           \/ last[p].type = "cleanup" /\ insts'[last[p].inst].raw}
           matching == {r \in 1..Len(routes) :
                           matchRoute(routes[r].path, pathname').matched}
       IN  (last # <<>> /\ last[1].type = "render" /\ thrownAt # {}) =>
               /\ \A p \in thrownAt :
                      /\ p < Len(last)
                      /\ last[p + 1].type = "error"
                      /\ last[p + 1].kind = IF last[p].type = "entry" THEN "throw"
                                            ELSE "router"
               /\ \A r \in matching :
                      (\/ matchRoute(routes[r].path, pathname').isWildcard
                       \/ \A q \in matching : r <= q) =>
                          \E p \in 1..Len(last) :
                              /\ last[p].type = "factory"
                              /\ last[p].route = r
                              /\ \A q \in thrownAt : q < p
               /\ (\E r \in matching : routes[r].view.builds \/ routes[r].view.tag) =>
                      content' # NoInst
               /\ content' # NoInst =>
                      /\ content' > Len(insts)
                      /\ \E r \in matching :
                             routes[r].view.name = insts'[content'].view]_vars

\* A navigation away from a view whose own cleanup threw: the router
\* reported the error and the container holds the view of the new location.
C32_Witness ==
    /\ navs > 0
    /\ content # NoInst
    /\ \E p \in 1..Len(routerLast) :
           /\ routerLast[p].type = "error"
           /\ routerLast[p].kind = "router"
           /\ p < Len(routerLast)
           /\ routerLast[p + 1].type = "factory"

\* What a render does with the '/*' routes.  At the locations the rule
\* covers (all of them, or all but '/*'), the factory of each '/*' route is
\* called, without arguments, whether or not another route matched.  A
\* node a '/*' factory built that was never put into the container is not
\* the router's currentCleanup, its cleanup has never been invoked, and
\* every callback its build subscribed is still subscribed.
WildcardRule(atEveryLocation) ==
    LET last == routerLast'
        wild == {r \in 1..Len(routes) : routes[r].path = WildcardPath}
    IN  /\ (/\ last # <<>>
            /\ last[1].type = "render"
            /\ atEveryLocation \/ pathname' # WildcardPath) =>
               \A r \in wild :
                   \E p \in 1..Len(last) :
                       /\ last[p].type = "factory"
                       /\ last[p].route = r
                       /\ last[p].kind = routes[r].view.name
                       /\ last[p].stale
        /\ \A inst \in 1..Len(insts') :
               (/\ \E r \in wild : routes[r].view.name = insts'[inst].view
                /\ inst # content'
                /\ ~insts'[inst].displaced) =>
                   /\ currentCleanup' # inst
                   /\ insts'[inst].cleanups = 0
                   /\ \A k \in 1..Len(insts'[inst].cleanupFunctions) :
                          LET e == insts'[inst].cleanupFunctions[k] IN
                          e.kind = "unsub" => e.fn \in Range(cells'[e.cell].subscribers)

ClickRule(samePathSkips) ==
    (routerLast' # <<>> /\ routerLast'[1].type = "click") =>
        LET e == routerLast'[1]
            href == LinkHrefs[e.route]
            n == Len(routerLast')
        IN  IF e.kind = "modifier"
            THEN n = 1 /\ pathname' = pathname /\ navs' = navs /\ content' = content
            ELSE /\ n >= 2
                 /\ routerLast'[2].type = "preventDefault"
                 /\ IF samePathSkips /\ href = pathname
                    THEN n = 2 /\ pathname' = pathname /\ navs' = navs
                         /\ content' = content
                    ELSE /\ n >= 4
                         /\ routerLast'[3].type = "pushState"
                         /\ routerLast'[3].route = e.route
                         /\ routerLast'[4].type = "popstate"
                         /\ pathname' = href
                         /\ navs' = navs + 1
                         /\ ~listening => n = 4
                         /\ listening =>
                               /\ n >= 5
                               /\ routerLast'[5].type = "render"
                               /\ content' # NoInst =>
                                     /\ content' > Len(insts)
                                     /\ \E r \in 1..Len(routes) :
                                            /\ matchRoute(routes[r].path, href).matched
                                            /\ routes[r].view.name = insts'[content'].view

\* C25: a click with Ctrl or Meta held suppresses nothing, pushes nothing
\* and dispatches nothing; every other click suppresses the default action,
\* pushes the href, then dispatches popstate, and a listening router renders
\* a view of a route matching the new path.
C25_ClickNavigates == [][ClickRule(FALSE)]_vars

\* C25, amended: as above, except that a click without Ctrl or Meta on a
\* link whose href is the current location.pathname suppresses the default
\* action and does nothing else.
C25_ClickNavigatesAmended == [][ClickRule(TRUE)]_vars

\* A click without modifier keys on a link to another path made the
\* listening router replace the view in its container.
C25_Witness ==
    /\ Len(routerLast) >= 5
    /\ routerLast[1].type = "click"
    /\ routerLast[1].kind = "plain"
    /\ routerLast[4].type = "popstate"
    /\ routerLast[5].type = "render"
    /\ pathname = LinkHrefs[routerLast[1].route]
    /\ content # NoInst
    /\ \E p \in 1..Len(routerLast) :
           routerLast[p].type = "cleanup" /\ routerLast[p].inst = routerLast[5].inst

(***************************************************************************)
(* Properties of component trees and effects                               *)
(***************************************************************************)
\* The events of the last task that satisfy P.
Count(P(_)) == Cardinality({q \in 1..Len(routerLast) : P(routerLast[q])})
CleanupsOf(inst) == Count(LAMBDA e : e.type = "cleanup" /\ e.inst = inst)
RunsOf(inst) == Count(LAMBDA e : e.type = "run" /\ e.inst = inst)

\* C11: whenever a node's aggregate cleanup has been invoked, every entry of
\* its cleanupFunctions has been called once per invocation, the throwing
\* ones included, and each throw has been reported once: a throwing entry
\* neither stops the entries after it nor the callers of the cleanup.
C11_EveryEntryRuns ==
    \A inst \in 1..Len(insts) : \A k \in 1..Len(insts[inst].cleanupFunctions) :
        LET kind == insts[inst].cleanupFunctions[k].kind IN
        /\ Count(LAMBDA e : e.type = "entry" /\ e.inst = inst /\ e.route = k
                            /\ e.kind = kind) = CleanupsOf(inst)
        /\ kind = "throw" =>
              Count(LAMBDA e : e.type = "error" /\ e.inst = inst /\ e.route = k)
                  = CleanupsOf(inst)

\* The cleanup of a node whose second of three `cleanup` functions throws was
\* invoked, and the third function was called after the throw.
C11_Witness ==
    \E p, q \in 1..Len(routerLast) :
        /\ p < q
        /\ routerLast[p].type = "error"
        /\ routerLast[q].type = "entry" /\ routerLast[q].inst = routerLast[p].inst
        /\ routerLast[q].kind = "return" /\ routerLast[q].route = routerLast[p].route + 1
        /\ \E k \in 1..Len(insts[routerLast[p].inst].cleanupFunctions) :
               /\ k < routerLast[p].route
               /\ insts[routerLast[p].inst].cleanupFunctions[k].kind = "return"

\* C17: invoking the combined teardown of an effect whose action returns a
\* teardown first calls the teardown the most recent run returned (no run
\* is left whose result has not been looked at, and the call of mainCleanup
\* follows at once, before any unsubscribe); and once the combined teardown
\* has completed, runFn is subscribed to no source.
C17_TeardownRunsLatest ==
    /\ \A p \in 1..Len(routerLast) :
           (/\ routerLast[p].type = "teardown"
            /\ effects[routerLast[p].inst].returnsTeardown) =>
               /\ ~routerLast[p].stale
               /\ p < Len(routerLast)
               /\ routerLast[p + 1].type = "mainCleanup"
               /\ routerLast[p + 1].inst = routerLast[p].inst
    /\ \A inst \in 1..Len(effects) :
           effects[inst].torn =>
               \A c \in CellIds :
                   Callback("runFn", inst, 0) \notin Range(cells[c].subscribers)

\* C18: the task that creates an effect starts its action once; afterwards,
\* as long as the combined teardown has not been invoked, a task that sets a
\* cell starts the action once when the cell is one of the effect's sources,
\* whichever position it has in the list, and not at all otherwise.
C18_OneRunPerNotification ==
    routerLast # <<>> =>
        \A inst \in 1..Len(effects) :
            effects[inst].unsubscribers # <<>> =>
                /\ (routerLast[1].type = "build" /\ inst > routerLast[1].inst) =>
                       RunsOf(inst) = 1
                /\ (routerLast[1].type = "set" /\ ~effects[inst].stopped) =>
                       RunsOf(inst) =
                           IF routerLast[1].kind \in Range(effects[inst].unsubscribers)
                           THEN 1 ELSE 0

\* The second source of an effect with two sources was set, and the action
\* was started by it.
C18_Witness ==
    /\ routerLast # <<>>
    /\ routerLast[1].type = "set"
    /\ \E inst \in 1..Len(effects) :
           /\ Len(effects[inst].unsubscribers) = 2
           /\ routerLast[1].kind = effects[inst].unsubscribers[2]
           /\ ~effects[inst].stopped
           /\ RunsOf(inst) = 1

\* The positions in its list of sources that the pending continuations of
\* the combined teardown of an effect will go on from.
PendingAt(inst) ==
    {microtasks[i].pos : i \in {j \in 1..Len(microtasks) :
        microtasks[j].kind = "teardown" /\ microtasks[j].inst = inst}}
Subscribed(inst, c) == Callback("runFn", inst, 0) \in Range(cells[c].subscribers)

\* C29: the task that invokes the combined teardown of an effect
\* unsubscribes no source when a per-run teardown had been captured (it is
\* called, and awaited) and only the first source otherwise; until the
\* teardown has completed a continuation is pending and every source it has
\* not passed is still subscribed; a set of a cell re-runs the action
\* exactly when runFn is still subscribed to it; after the teardown has
\* completed runFn is subscribed to no cell.
C29_TeardownUnsubscribesLater ==
    \A inst \in 1..Len(effects) :
        LET sources == effects[inst].unsubscribers
            unsubs == Count(LAMBDA e : e.type = "unsub" /\ e.inst = inst)
        IN  sources # <<>> =>
            /\ \A p \in 1..Len(routerLast) :
                   (routerLast[p].type = "teardown" /\ routerLast[p].inst = inst) =>
                       unsubs = IF /\ p < Len(routerLast)
                                   /\ routerLast[p + 1].type = "mainCleanup"
                                THEN 0 ELSE 1
            /\ (effects[inst].stopped /\ ~effects[inst].torn) =>
                   /\ PendingAt(inst) # {}
                   /\ \A k \in 1..Len(sources) :
                          Subscribed(inst, sources[k]) <=> \A q \in PendingAt(inst) : q <= k
            /\ effects[inst].torn => \A c \in CellIds : ~Subscribed(inst, c)
            /\ (routerLast # <<>> /\ routerLast[1].type = "set") =>
                   RunsOf(inst) = IF Subscribed(inst, routerLast[1].kind) THEN 1 ELSE 0

\* After the combined teardown was invoked and before it completed, a set
\* of a source re-ran the action.
C29_Witness ==
    /\ routerLast # <<>>
    /\ routerLast[1].type = "set"
    /\ \E inst \in 1..Len(effects) :
           /\ effects[inst].stopped
           /\ ~effects[inst].torn
           /\ RunsOf(inst) = 1

\* C30: a task that starts the action of an effect leaves the look at what
\* the run returned to a pending continuation; a run's teardown is captured
\* only by such a continuation, never in the task of the run; the combined
\* teardown calls a per-run teardown exactly when one has been captured by
\* then, so not when it is invoked while the first run is still pending;
\* and a per-run teardown is called by nothing but an invocation of the
\* combined teardown.
C30_CaptureIsDeferred ==
    /\ \A p \in 1..Len(routerLast) :
           LET e == routerLast[p] IN
           /\ e.type = "run" =>
                  \E i \in 1..Len(microtasks) :
                      microtasks[i].kind = "runFn" /\ microtasks[i].inst = e.inst
           /\ e.type = "teardown" =>
                  (effects[e.inst].mainCleanup <=>
                      /\ p < Len(routerLast)
                      /\ routerLast[p + 1].type = "mainCleanup"
                      /\ routerLast[p + 1].inst = e.inst)
           /\ e.type = "mainCleanup" =>
                  /\ p > 1
                  /\ routerLast[p - 1].type = "teardown"
                  /\ routerLast[p - 1].inst = e.inst
    /\ \A inst \in 1..Len(effects) :
           (/\ routerLast # <<>>
            /\ routerLast[1].type = "build"
            /\ inst > routerLast[1].inst) => ~effects[inst].mainCleanup

\* The combined teardown of an effect whose action returns a teardown was
\* invoked while the first run was pending: no per-run teardown was called.
C30_Witness ==
    \E p \in 1..Len(routerLast) :
        /\ routerLast[p].type = "teardown"
        /\ routerLast[p].stale
        /\ effects[routerLast[p].inst].returnsTeardown
        /\ ~effects[routerLast[p].inst].mainCleanup
        /\ \A q \in 1..Len(routerLast) : routerLast[q].type # "mainCleanup"

\* The functions returned by the runs of an effect whose promises have not
\* resolved yet.
PendingResults(inst) ==
    {microtasks[i].pos : i \in {j \in 1..Len(microtasks) :
        /\ microtasks[j].kind = "runFn"
        /\ microtasks[j].inst = inst
        /\ microtasks[j].pos # 0}}

\* C31: an effect has one slot for the teardown of a run.  A task that
\* re-runs the action by a notification calls no per-run teardown.  The slot
\* changes only when a run resolves to a function, and then holds that
\* function, whether or not runs started later have resolved before it; a
\* run that resolves to anything else leaves the slot as it is.  Every call
\* of a per-run teardown is made by the combined teardown, and is a call of
\* the function the slot holds.
C31_SingleTeardownSlot ==
    [][\A inst \in 1..Len(effects) :
          LET last == routerLast'
              resolves == /\ last # <<>>
                          /\ last[1].type = "resolve"
                          /\ last[1].inst = inst
                          /\ last[1].route # 0
          IN  /\ (last # <<>> /\ last[1].type = "set") =>
                     \A p \in 1..Len(last) : last[p].type # "mainCleanup"
              /\ ~resolves =>
                     /\ effects'[inst].captured = effects[inst].captured
                     /\ effects'[inst].mainCleanup = effects[inst].mainCleanup
              /\ resolves =>
                     /\ effects'[inst].mainCleanup
                     /\ effects'[inst].captured =
                            Cardinality({f \in PendingResults(inst) : f <= last[1].route})
              /\ \A p \in 1..Len(last) :
                     (last[p].type = "mainCleanup" /\ last[p].inst = inst) =>
                         /\ effects'[inst].mainCleanup
                         /\ last[p].route = effects'[inst].captured
                         /\ p > 1
                         /\ last[p - 1].type = "teardown"
                         /\ last[p - 1].inst = inst]_vars

\* A run resolved to a function after a run started later had resolved to
\* one: the slot holds the function of the run that resolved last.
C31_Witness ==
    /\ routerLast # <<>>
    /\ routerLast[1].type = "resolve"
    /\ routerLast[1].stale
    /\ effects[routerLast[1].inst].mainCleanup
    /\ effects[routerLast[1].inst].captured = 1

\* C33: a run of an effect's action that throws is reported in the task of
\* the run, one whose promise is rejected is reported when the rejection
\* arrives.  The call of ultraEffect goes on: the effect is subscribed to
\* every source and the node that takes its teardown is built.  A set of a
\* source goes on: every subscriber of the cell is called, and the effect is
\* still subscribed afterwards.
C33_ActionErrorsAreContained ==
    [][LET last == routerLast'
           failing == {inst \in 1..Len(effects') : effects'[inst].fails # "none"}
       IN  /\ \A p \in 1..Len(last) :
                  (/\ last[p].type = "run"
                   /\ effects'[last[p].inst].fails = "throw") =>
                      /\ p < Len(last)
                      /\ last[p + 1].type = "error"
                      /\ last[p + 1].kind = "effect"
                      /\ last[p + 1].inst = last[p].inst
           /\ (/\ last # <<>>
               /\ last[1].type = "resolve"
               /\ effects'[last[1].inst].fails = "reject") =>
                  /\ Len(last) = 2
                  /\ last[2].type = "error"
                  /\ last[2].kind = "effect"
                  /\ last[2].inst = last[1].inst
           /\ (last # <<>> /\ last[1].type = "build") =>
                  \A inst \in failing :
                      inst > Len(effects) =>
                          /\ \A c \in Range(effects'[inst].unsubscribers) :
                                 Callback("runFn", inst, 0) \in Range(cells'[c].subscribers)
                          /\ insts'[inst].cleanupFunctions # <<>>
           /\ (last # <<>> /\ last[1].type = "set") =>
                  \A inst \in failing :
                      Callback("runFn", inst, 0) \in Range(cells[last[1].kind].subscribers) =>
                          /\ \A fn \in Range(cells[last[1].kind].subscribers) :
                                 \E p \in 1..Len(last) :
                                     /\ last[p].type = "call"
                                     /\ last[p].inst = fn.inst
                                     /\ last[p].kind = fn.kind
                          /\ Callback("runFn", inst, 0)
                                 \in Range(cells'[last[1].kind].subscribers)]_vars

\* A set re-ran an action that throws: the error was reported and the
\* trigger subscribed to the cell after the effect was called all the same.
C33_Witness ==
    /\ routerLast # <<>>
    /\ routerLast[1].type = "set"
    /\ \E p, q \in 1..Len(routerLast) :
           /\ p < q
           /\ routerLast[p].type = "error"
           /\ routerLast[p].kind = "effect"
           /\ routerLast[q].type = "call"
           /\ routerLast[q].kind = "trigger"
           /\ routerLast[q].inst = routerLast[p].inst

\* C34: a builder called with a built node as its `component` gives the
\* node a cleanup list that holds none of the entries of the list before.
\* A call of the node's cleanup runs the entries of the list the node has
\* then and nothing else: a callback of the node that a cell holds and whose
\* unsubscribe is not in the list stays subscribed, and the teardown of an
\* effect that is not in the list is not invoked.
C34_RebuildDropsTeardowns ==
    [][LET last == routerLast'
           inst == last[1].inst
           list == insts[inst].cleanupFunctions
       IN  /\ (last # <<>> /\ last[1].type = "wrap") =>
                  /\ \A k \in 1..Len(list) :
                         list[k] \notin Range(insts'[inst].cleanupFunctions)
                  /\ insts'[inst].cleanupFunctions # <<>>
           /\ (last # <<>> /\ last[1].type = "call_cleanup") =>
                  /\ Cardinality({p \in 1..Len(last) :
                         last[p].type = "entry" /\ last[p].inst = inst}) = Len(list)
                  /\ \A c \in CellIds :
                         \A fn \in Range(cells[c].subscribers) :
                             (/\ fn.inst = inst
                              /\ fn.kind # "runFn"
                              /\ \A k \in 1..Len(list) : list[k].fn # fn) =>
                                 fn \in Range(cells'[c].subscribers)
                  /\ (\A k \in 1..Len(list) : list[k].kind # "effect") =>
                         \A p \in 1..Len(last) : last[p].type # "teardown"]_vars

\* The cleanup of a node that was handed to a builder a second time has
\* run: a callback subscribed by the first build is still subscribed.
C34_Witness ==
    /\ routerLast # <<>>
    /\ routerLast[1].type = "call_cleanup"
    /\ insts[routerLast[1].inst].built = 2
    /\ \E c \in CellIds :
           \E fn \in Range(cells[c].subscribers) : fn.inst = routerLast[1].inst

\* C35: the cleanup of a node appended to a parent is an entry of the
\* parent's cleanup list exactly when the node was itself the object passed
\* in `children` and has a cleanup; a node passed inside an UltraFragment or
\* inside an UltraLink is appended but is in no list, and a task that
\* invokes the cleanup of another node does not invoke its cleanup.
C35_OnlyDirectChildrenPropagate ==
    /\ \A inst \in 1..Len(insts) :
           \A k \in 1..Len(insts[inst].kids) :
               LET kid == insts[inst].kids[k] IN
               (\E e \in 1..Len(insts[inst].cleanupFunctions) :
                    /\ insts[inst].cleanupFunctions[e].kind = "child"
                    /\ insts[inst].cleanupFunctions[e].fn.inst = kid)
                   <=> (insts[kid].via = "node" /\ insts[kid].hasCleanup
                        /\ insts[inst].view # "link")
    /\ \A kid \in 1..Len(insts) :
           insts[kid].via \in {"fragment", "link"} =>
               /\ \E inst \in 1..Len(insts) : kid \in Range(insts[inst].kids)
               /\ (routerLast # <<>> /\ routerLast[1].type = "call_cleanup"
                   /\ routerLast[1].inst # kid) => CleanupsOf(kid) = 0

\* The cleanup of a node with an UltraLink child was invoked: the link's
\* cleanup ran, that of the built node inside the link did not.
C35_Witness ==
    /\ routerLast # <<>>
    /\ routerLast[1].type = "call_cleanup"
    /\ \E link, kid \in 1..Len(insts) :
           /\ insts[link].view = "link"
           /\ link \in Range(insts[routerLast[1].inst].kids)
           /\ kid \in Range(insts[link].kids)
           /\ insts[kid].hasCleanup
           /\ CleanupsOf(link) = 1
           /\ CleanupsOf(kid) = 0

\* The callbacks of kind `kind` waiting in q for the trigger or function
\* idx of node inst.
Waiting(q, kind, inst, idx) ==
    Cardinality({k \in 1..Len(q) :
        q[k].kind = kind /\ q[k].inst = inst /\ q[k].idx = idx})

\* C37: a set of a cell runs no triggerFunction of a deferred trigger: for
\* each deferred trigger subscribed to the cell it requests one frame
\* callback, for that trigger and its node, and nothing else; a trigger on
\* the cell that is not deferred is called in the task of the set.  A frame
\* runs the triggerFunction once for each callback requested.
C37_DeferredTriggersRunNextFrame ==
    [][LET last == routerLast'
           c == last[1].kind
           subs == cells[c].subscribers
           deferred == {k \in 1..Len(subs) : subs[k].kind = "deferred"}
           plain == {k \in 1..Len(subs) : subs[k].kind = "trigger"}
       IN  /\ (last # <<>> /\ last[1].type = "set") =>
                  /\ \A p \in 1..Len(last) : last[p].type # "triggerFunction"
                  /\ Len(frames') = Len(frames) + Cardinality(deferred)
                  /\ SubSeq(frames', 1, Len(frames)) = frames
                  /\ \A k \in deferred :
                         Waiting(frames', "trigger", subs[k].inst, subs[k].idx)
                             = Waiting(frames, "trigger", subs[k].inst, subs[k].idx) + 1
                  /\ \A k \in plain :
                         \E p \in 1..Len(last) :
                             /\ last[p].type = "call"
                             /\ last[p].kind = "trigger"
                             /\ last[p].inst = subs[k].inst
           /\ (last # <<>> /\ last[1].type = "frame") =>
                  /\ \A inst \in 1..Len(insts) :
                         \A idx \in 1..Len(insts[inst].cleanupFunctions) :
                             Cardinality({p \in 1..Len(last) :
                                 /\ last[p].type = "triggerFunction"
                                 /\ last[p].inst = inst
                                 /\ last[p].route = idx})
                                 = Waiting(frames, "trigger", inst, idx)
                  /\ frames' = <<>>]_vars

\* A frame ran the triggerFunction of one deferred trigger twice: its cell
\* had been set twice since the frame before.
C37_Witness ==
    /\ routerLast # <<>>
    /\ routerLast[1].type = "frame"
    /\ \E p, q \in 1..Len(routerLast) :
           /\ p < q
           /\ routerLast[p].type = "triggerFunction"
           /\ routerLast[q].type = "triggerFunction"
           /\ routerLast[p].inst = routerLast[q].inst
           /\ routerLast[p].route = routerLast[q].route

\* The events of a task that are runs of frame callbacks, in order.
FrameRuns(events) ==
    SelectSeq(events, LAMBDA e : e.type \in {"triggerFunction", "onMount"})

\* C38: a task that invokes the cleanup of a node leaves the frame callbacks
\* that are waiting as they are, and the next frame runs every callback
\* that is waiting, in the order of the requests, those of nodes whose
\* cleanup has been invoked like the others.
C38_CleanupCancelsNoFrame ==
    [][LET last == routerLast'
           runs == FrameRuns(last)
       IN  /\ (last # <<>> /\ last[1].type = "call_cleanup") => frames' = frames
           /\ (last # <<>> /\ last[1].type = "frame") =>
                  /\ Len(runs) = Len(frames)
                  /\ \A k \in 1..Len(frames) :
                         /\ runs[k].type = IF frames[k].kind = "trigger"
                                           THEN "triggerFunction" ELSE "onMount"
                         /\ runs[k].inst = frames[k].inst
                         /\ runs[k].route = frames[k].idx
                         /\ runs[k].stale = (insts[frames[k].inst].cleanups > 0)]_vars

\* A frame ran an onMount function and a deferred triggerFunction of a
\* node whose cleanup had been invoked before the frame.
C38_Witness ==
    /\ routerLast # <<>>
    /\ routerLast[1].type = "frame"
    /\ \E p, q \in 1..Len(routerLast) :
           /\ routerLast[p].type = "onMount"
           /\ routerLast[p].stale
           /\ routerLast[q].type = "triggerFunction"
           /\ routerLast[q].stale
           /\ routerLast[q].inst = routerLast[p].inst

\* The frame callbacks of onMount functions among those waiting.
OnMountWaiting(q) == SelectSeq(q, LAMBDA f : f.kind = "onMount")

\* C40: no onMount function is called in a step that is not a frame, the
\* build of a node included; the build requests one frame callback for each
\* function of the onMount prop, with the built node; the next frame calls
\* every waiting onMount function once, with its node, whether or not an
\* earlier one threw, the exception being caught and logged, and leaves none
\* waiting.
C40_OnMountRunsOnceNextFrame ==
    [][LET last == routerLast'
       IN  /\ (last # <<>> /\ last[1].type # "frame") =>
                  \A p \in 1..Len(last) : last[p].type # "onMount"
           /\ (last # <<>> /\ last[1].type = "build") =>
                  LET view == CHOOSE v \in FrameViews : v.name = last[1].kind
                      was  == Len(OnMountWaiting(frames))
                      now  == OnMountWaiting(frames')
                  IN  /\ Len(now) = was + Len(view.onMount)
                      /\ \A i \in 1..Len(view.onMount) :
                             /\ now[was + i].idx = i
                             /\ now[was + i].how = view.onMount[i]
                             /\ now[was + i].inst > Len(insts)
                             /\ insts'[now[was + i].inst].view = view.name
           /\ (last # <<>> /\ last[1].type = "frame") =>
                  LET waiting == OnMountWaiting(frames)
                      runs == SelectSeq(last, LAMBDA e : e.type = "onMount")
                  IN  /\ frames' = <<>>
                      /\ Len(runs) = Len(waiting)
                      /\ \A k \in 1..Len(waiting) :
                             /\ runs[k].inst = waiting[k].inst
                             /\ runs[k].route = waiting[k].idx
                      /\ \A p \in 1..Len(last) :
                             (last[p].type = "onMount" /\ last[p].kind = "throw") =>
                                 /\ p < Len(last)
                                 /\ last[p + 1].type = "error"
                                 /\ last[p + 1].kind = "onMount"]_vars

\* A frame called the three onMount functions of a node: the second threw
\* and the third was called after it.
C40_Witness ==
    /\ routerLast # <<>>
    /\ routerLast[1].type = "frame"
    /\ frames = <<>>
    /\ \E p, q \in 1..Len(routerLast) :
           /\ p < q
           /\ routerLast[p].type = "onMount"
           /\ routerLast[p].kind = "throw"
           /\ routerLast[p].route = 2
           /\ routerLast[q].type = "onMount"
           /\ routerLast[q].route = 3
           /\ routerLast[q].inst = routerLast[p].inst
           /\ insts[routerLast[q].inst].view = "S"

\* Where the builders register an entry of cleanupFunctions: the removal of
\* an event handler, the _cleanup of a child, the unsubscribe of update from
\* a mode subscriber, the unsubscribe of a trigger, a function of `cleanup`.
EntryRank(e) ==
    IF e.kind = "listener" THEN 1
    ELSE IF e.kind = "child" THEN 2
    ELSE IF e.kind = "unsub" /\ e.fn.kind = "update" THEN 3
    ELSE IF e.kind = "unsub" THEN 4
    ELSE 5

\* The entries of the cleanupFunctions of inst that a step called, in the
\* order of the calls.
EntryRuns(events, inst) ==
    SelectSeq(events, LAMBDA e : e.type = "entry" /\ e.inst = inst)

\* C39: the aggregate cleanup of a node calls every entry of its
\* cleanupFunctions once, in the order of registration, and that order is:
\* the removals of event handlers, the cleanups of children, (UltraActivity)
\* the unsubscribes of update from the mode subscribers, the unsubscribes of
\* the triggers, the functions of the `cleanup` prop.
C39_CleanupRunsInRegistrationOrder ==
    [][\A inst \in 1..Len(insts') :
          LET last == routerLast'
              fns  == insts'[inst].cleanupFunctions
              runs == EntryRuns(last, inst)
          IN  (/\ last # <<>>
               /\ last[1].type = "call_cleanup"
               /\ \E p \in 1..Len(last) :
                      last[p].type = "cleanup" /\ last[p].inst = inst) =>
                  /\ Len(runs) = Len(fns)
                  /\ \A k \in 1..Len(fns) : runs[k].route = k
                  /\ \A j, k \in 1..Len(fns) :
                         j < k => EntryRank(fns[j]) <= EntryRank(fns[k])]_vars

\* The cleanup of an UltraActivity node with an event handler, a child, two
\* mode subscribers, a trigger and a cleanup function was invoked and called
\* entries of all five sorts.
C39_Witness ==
    /\ routerLast # <<>>
    /\ routerLast[1].type = "call_cleanup"
    /\ LET inst == routerLast[1].inst
           fns  == insts[inst].cleanupFunctions
       IN  /\ insts[inst].view = "Q"
           /\ Len(EntryRuns(routerLast, inst)) = 6
           /\ {EntryRank(fns[k]) : k \in 1..Len(fns)} = 1..5

\* The nodes built below a node: its children, and theirs.
RECURSIVE Below(_)
Below(inst) ==
    UNION {{kid} \cup Below(kid) : kid \in Range(insts[inst].kids)}

\* C19: a task that invokes the aggregate cleanup of a node once has invoked
\* the aggregate cleanup of every node built below it that has one exactly
\* once.
C19_SubtreeCleanedOnce ==
    (routerLast # <<>> /\ routerLast[1].type = "call_cleanup") =>
        \A kid \in Below(routerLast[1].inst) :
            insts[kid].hasCleanup => CleanupsOf(kid) = 1

\* An UltraActivity node shows what mode.state() says.
Reflects(node, current) ==
    /\ node.type = "display" => node.display = IF current THEN "" ELSE "none"
    /\ node.type = "visibility" =>
           node.visibility = IF current THEN "visible" ELSE "hidden"

\* C23: after the task that builds an UltraActivity node and after every
\* task that sets a cell of its mode, the display (type 'display') or the
\* visibility (type 'visibility') of the node is what mode.state() says, as
\* long as the node's cleanup has not been invoked; once it has been, no
\* task changes either channel.
C23_ActivityReflectsMode ==
    [][\A inst \in 1..Len(insts') :
          /\ (insts'[inst].type # "none" /\ insts'[inst].cleanups = 0) =>
                 Reflects(insts'[inst],
                          \A i \in 1..Len(insts'[inst].mode) :
                              cells'[insts'[inst].mode[i]].value = Num(1))
          /\ (inst <= Len(insts) /\ insts[inst].cleanups > 0) =>
                 /\ insts'[inst].display = insts[inst].display
                 /\ insts'[inst].visibility = insts[inst].visibility]_vars

\* A set of the second mode cell made mode.state() true: update was called
\* and the node, hidden since it was built, is visible.
C23_Witness ==
    /\ routerLast # <<>>
    /\ routerLast[1].type = "set"
    /\ \E inst \in 1..Len(insts) :
           /\ insts[inst].type = "visibility"
           /\ insts[inst].visibility = "visible"
           /\ insts[inst].cleanups = 0
           /\ \E p \in 1..Len(routerLast) :
                  /\ routerLast[p].type = "call"
                  /\ routerLast[p].kind = "update"
                  /\ routerLast[p].inst = inst

(***************************************************************************)
(* Properties of route matching                                            *)
(***************************************************************************)
\* The table entries whose pattern is not '/*' and matches the location.
NonWildcardMatches ==
    {i \in 1..Len(routes) :
        routes[i].path # WildcardPath /\ matchRoute(routes[i].path, pathname).matched}
Earliest(S) == CHOOSE i \in S : \A j \in S : i <= j

\* C12: the node in the router container is the one built by the earliest
\* table entry whose non-wildcard pattern matches the location, and it is
\* the node of a '/*' entry only when no non-wildcard entry matches.
C12_EarliestMatchWins ==
    routerLast # <<>> =>
        /\ NonWildcardMatches # {} =>
              /\ content # NoInst
              /\ insts[content].view = routes[Earliest(NonWildcardMatches)].view.name
        /\ (/\ content # NoInst
            /\ \E i \in 1..Len(routes) :
                   routes[i].path = WildcardPath /\ routes[i].view.name = insts[content].view)
              => NonWildcardMatches = {}

\* The rule of the claim: verbatim equality, or as many segments with every
\* segment of the pattern that is not a ':name' equal to the path's.
SegmentsMatch(routePath, currentPath) ==
    /\ Len(Parts(routePath)) = Len(Parts(currentPath))
    /\ \A i \in 1..Len(Parts(routePath)) :
           ~Parts(routePath)[i].colon => Parts(routePath)[i] = Parts(currentPath)[i]
NamedAt(routePath) == {i \in 1..Len(Parts(routePath)) : Parts(routePath)[i].colon}

\* C13: matchRoute reports a match exactly when the pattern equals the path
\* or the segments match; in a match each ':name' segment binds its name to
\* the path segment at its position; a non-match binds nothing.
C13_MatchRule ==
    routes # <<>> =>
        LET routePath == routes[1].path IN
        /\ matchLast.matched <=> (routePath = pathname \/ SegmentsMatch(routePath, pathname))
        /\ matchLast.matched =>
              \A i \in NamedAt(routePath) :
                  /\ Parts(routePath)[i].name \in DOMAIN matchLast.params
                  /\ matchLast.params[Parts(routePath)[i].name] = Parts(pathname)[i]
        /\ ~matchLast.matched => matchLast.params = <<>>

\* C13 as amended: the pattern '/*' matches every path too; a verbatim match
\* and a '/*' match bind nothing; in a match by segments the names bound are
\* those of the ':name' segments, each to the path segment at the position
\* of the last segment that carries it.
C13_MatchRuleAmended ==
    routes # <<>> =>
        LET routePath == routes[1].path
            bySegments == /\ routePath # pathname /\ routePath # WildcardPath
                          /\ SegmentsMatch(routePath, pathname)
        IN
        /\ matchLast.matched <=>
              (routePath = pathname \/ routePath = WildcardPath \/ bySegments)
        /\ ~bySegments => matchLast.params = <<>>
        /\ bySegments =>
              /\ DOMAIN matchLast.params =
                    {Parts(routePath)[i].name : i \in NamedAt(routePath)}
              /\ \A i \in NamedAt(routePath) :
                    (\A j \in NamedAt(routePath) :
                        Parts(routePath)[j].name = Parts(routePath)[i].name => j <= i)
                    => matchLast.params[Parts(routePath)[i].name] = Parts(pathname)[i]

\* '/a/:id' was matched against '/a/b', which bound id to b.
C13_Witness ==
    /\ routes # <<>>
    /\ routes[1].path = <<EmptyPart, Lit("a"), Param("id")>>
    /\ pathname = <<EmptyPart, Lit("a"), Lit("b")>>
    /\ matchLast.matched
    /\ matchLast.params["id"] = Lit("b")

(***************************************************************************)
(* Properties of ultraCompState                                            *)
(***************************************************************************)
\* C20: a set on one state field of the store calls only functions
\* subscribed to that field and leaves the subscribers of the field as they
\* were; the value and the subscribers of every other state field are the
\* same before and after.
C20_FieldsIndependent ==
    [][\A key \in StateFields :
          (cellLast'.op = "set" /\ cellLast'.cell = store.comp[key].cell) =>
              /\ \A i \in 1..Len(cellLast'.calls) :
                     cellLast'.calls[i].fn \in Range(cells[store.comp[key].cell].subscribers)
              /\ cells'[store.comp[key].cell].subscribers
                     = cells[store.comp[key].cell].subscribers
              /\ \A other \in StateFields \ {key} :
                     cells'[store.comp[other].cell] = cells[store.comp[other].cell]]_vars

\* count was set to a new value while f1 was subscribed to count and to
\* name: f1 was called once, with the new count, and name is still 'John'.
C20_Witness ==
    /\ cellLast.op = "set"
    /\ cellLast.cell = store.comp["count"].cell
    /\ cellLast.before # cellLast.arg
    /\ cellLast.calls = <<[fn |-> UserFn(1), arg |-> cellLast.arg]>>
    /\ UserFn(1) \in Range(cells[store.comp["name"].cell].subscribers)
    /\ cells[store.comp["name"].cell].value = Str("John")
    /\ cells[store.comp["count"].cell].value = Num(1)

\* C21: a call of a method of the store hands the function the completed
\* store and the caller's arguments and returns what the function returns,
\* and what the function does through the store is done to the cells as they
\* are at the call: increment (a key before the fields) sets count to one
\* more than it is, rename (a key after them) sets name to its argument and
\* returns what name then holds, reset sets count to 0 and returns what
\* the store's rename returns for 'John'; the subscribers of a field that
\* changed are called with the value it ends with, a field a method does
\* not set is as it was.
C21_MethodsUseLiveStore ==
    [][cellLast'.op = "method" =>
        LET count == store.comp["count"].cell
            name == store.comp["name"].cell
            key == cellLast'.key
        IN  /\ key = "increment" =>
                  /\ cells'[count].value = Toggle(cells[count].value)
                  /\ cells'[name] = cells[name]
                  /\ cellLast'.result = Undefined
                  /\ cellLast'.calls = forEach(cells[count].subscribers, cells'[count].value)
            /\ key = "rename" =>
                  /\ cells'[name].value = cellLast'.arg
                  /\ cells'[count] = cells[count]
                  /\ cellLast'.result = cellLast'.arg
                  /\ cellLast'.calls =
                         IF cells[name].value = cellLast'.arg THEN <<>>
                         ELSE forEach(cells[name].subscribers, cellLast'.arg)
            /\ key = "reset" =>
                  /\ cells'[count].value = Num(0)
                  /\ cells'[name].value = Str("John")
                  /\ cellLast'.result = Str("John")
            /\ \A c \in CellIds : cells'[c].subscribers = cells[c].subscribers]_vars

\* count was 1 and name 'Ann', each with a subscriber, when reset was called:
\* both subscribers were called, count first, and 'John' was returned.
C21_Witness ==
    /\ cellLast.op = "method"
    /\ cellLast.key = "reset"
    /\ cellLast.result = Str("John")
    /\ cellLast.calls = <<[fn |-> UserFn(1), arg |-> Num(0)],
                          [fn |-> UserFn(1), arg |-> Str("John")]>>

=============================================================================
